---- MODULE Spec2Model ----
(***************************************************************************)
(* Verification model of the nous-news-node fetch / dedup / store pipeline *)
(* with background-job tracking.                                           *)
(*                                                                         *)
(* The module holds several specifications, one per subsystem:             *)
(*   SpecJobs      the in-memory job tracker (lib/jobs.ts), the handlers   *)
(*                 and background tasks that write to it, and the sweep    *)
(*   SpecJobsLive  the tracked jobs, their tasks' steps taken fairly       *)
(*   SpecLocal     the local article store writer (add / addUnique), one   *)
(*                 call at a time                                          *)
(*   SpecLocalConc the same writer with overlapping calls                  *)
(*   SpecLocalIds  the local store writers that carry a record id          *)
(*   SpecLocalSave POST /articles/local/save, with or without Helia        *)
(*   SpecStores    the analyzed and federated store writers                *)
(*   SpecFetch     the fetch pipeline entry points and the progress event  *)
(*                 sink (lib/log.ts broadcast)                             *)
(*   SpecSources   the source registry: merge of defaults and persisted    *)
(*                 overrides, and the update handler                       *)
(*   SpecAnalyze   article analysis and the writers of analyzed records    *)
(*   SpecAggregate aggregation of provider links into resolved articles    *)
(*   SpecStoreOps  store handles, deletions and the background fetch tasks *)
(*   SpecDebugLog  the debug log store and its two writers                 *)
(*   SpecSingleton the singleton initialisers under overlapping calls      *)
(*   SpecThrottle  the per-client request throttle of the routers          *)
(*   SpecUpdates   POST /sources/update under overlapping requests         *)
(*   SpecTimeout   the race of loader and timer in withTimeout             *)
(***************************************************************************)
EXTENDS Integers, Sequences, FiniteSets, TLC

VARIABLES
    \* ---- job tracker (SpecJobs) ----
    now,            \* Date.now(), in milliseconds
    lastSweep,      \* time the setInterval callback of jobs.ts last fired
    jobStatusMap,   \* jobs.ts jobStatusMap: job id -> row, or NoJob
    nextJobId,      \* number of job ids handed out by crypto.randomUUID()
    jobKind,        \* which handler created the job
    jobPc,          \* position of the job's background task
    jobStep,        \* index of the analysis step the task is at
    jobSource,      \* source name the job was created for
    jobContent,     \* whether the article of an analysis job has content
    queuedResponses,\* job ids sent to a caller in a "queued" response
    statusLog,      \* history: per id, the statuses setJobStatus recorded, in
                    \* order, repeats of the same status collapsed
    sweptOld,       \* history: ids a sweep removed at least a retention window
                    \* after their last status change
    sweptYoung,     \* history: ids a sweep removed sooner than that
    \* ---- local article store (SpecLocal, SpecLocalConc) ----
    heliaInstance,  \* p2p/helia: TRUE once initHelia has set the singleton
    articleLocalDB, \* the local documents store, indexed by url
    blobStore,      \* content identifiers saved in the blob store (IPFS)
    task,           \* the running add / addUnique calls
    callStart,      \* history: store and blob store when the call that is
                    \* running began (kept while it is the only one running)
    addedBy,        \* history: per url, the count of non-overwrite adds that
                    \* returned true
    \* ---- analyzed and federated stores (SpecStores) ----
    articleAnalyzedDB,  \* the analyzed documents store, indexed by id
    articleFederatedDB, \* the federated documents store, indexed by cid
    storeCall,      \* history: the last add call on either store
    \* ---- progress events and fetch pipeline (SpecFetch) ----
    broadcastFn,    \* lib/log.ts broadcastFn: the installed sink, or NoSink
    installed,      \* history: the argument of the last setBroadcastFn call
    run,            \* the running pipeline entry points
    \* ---- source registry (SpecSources) ----
    sourcesFile,    \* data/sources.json: the persisted override list, or NoFile
    srcCall,        \* history: the last registry operation and what it saw
    \* ---- article analysis and the analyzed records (SpecAnalyze) ----
    analysis,       \* the running analyzeArticle call and its caller
    analyzedDocs,   \* the analyzed store's records as the routes write them
    uuidsDrawn,     \* number of crypto.randomUUID() results drawn
    \* ---- article aggregation (SpecAggregate) ----
    agg,            \* the running aggregateArticlesFromSources call
    \* ---- store handles and background fetch tasks (SpecStoreOps) ----
    dbReady,        \* per store, whether setup has set the module's handle
    dbDocs,         \* per store, its documents by key
    opCall,         \* history: the last store operation and its result
    bgTask          \* the running background fetch task

jobVars == <<now, lastSweep, jobStatusMap, nextJobId, jobKind, jobPc, jobStep,
             jobSource, jobContent, queuedResponses, statusLog, sweptOld, sweptYoung>>

localVars == <<heliaInstance, articleLocalDB, blobStore, task, callStart,
               addedBy>>

storeVars == <<articleAnalyzedDB, articleFederatedDB, storeCall>>

fetchVars == <<broadcastFn, installed, run>>

sourceVars == <<sourcesFile, srcCall>>

anVars == <<analysis, analyzedDocs, uuidsDrawn>>

aggVars == <<agg>>

opVars == <<dbReady, dbDocs, opCall, bgTask>>

baseVars == <<jobVars, localVars, storeVars, fetchVars, sourceVars, anVars,
              aggVars, opVars>>

VARIABLES debugDBInstance, debugDocs, logsMade, logCall

dbgVars == <<debugDBInstance, debugDocs, logsMade, logCall>>

VARIABLES singleton, opens, handed, overlapped, initCall

initVars == <<singleton, opens, handed, overlapped, initCall>>

VARIABLES throttleMap, recent, lastRequest

thrVars == <<throttleMap, recent, lastRequest>>

VARIABLES sourcesJson, updatesMade, update, acknowledged, interleaved

updVars == <<sourcesJson, updatesMade, update, acknowledged, interleaved>>

VARIABLES race, raceAt, raceResults

toVars == <<race, raceAt, raceResults>>

lateVars == <<dbgVars, initVars, thrVars, updVars, toVars>>

extVars == <<sourceVars, anVars, aggVars, opVars, lateVars>>

vars == <<jobVars, localVars, storeVars, fetchVars, extVars>>

(***************************************************************************)
(* Bounds                                                                  *)
(***************************************************************************)
MaxJobs == 2
MaxTicks == 1
TickMs == 600000
MaxTasks == 2
MaxBatch == 2
MaxItems == 2
MaxRuns == 2
Runs == 1..MaxRuns

(***************************************************************************)
(* Job tracker: lib/jobs.ts                                                *)
(***************************************************************************)
SweepIntervalMs == 1000 * 60 * 10

JobIds == 1..MaxJobs
NoJob == [status |-> "none"]
NoMessage == <<"undefined", 0>>
Msg(text, k) == <<text, k>>
SourceNames == {"bbc"}
Terminal == {"done", "error"}
NonTerminal == {"queued", "running"}

\* analyzeArticle's steps array: politicalBias, sentiment, cognitiveBiases,
\* antithesis, philosophical
Steps == <<"politicalBias", "sentiment", "cognitiveBiases", "antithesis",
           "philosophical">>
NumSteps == Len(Steps)

setJobStatus(map, jobId, status, source, message, t) ==
    [map EXCEPT ![jobId] = [status |-> status, source |-> source,
                            message |-> message, createdAt |-> t]]

getJobStatus(map, jobId) == map[jobId]

\* the test of the sweep's forEach body: TRUE when the row is deleted
SweepMutKeepsError(job, t) == job.status = "done"
SweepMutEvictsRunning(job, t) == job.status \in {"running", "done", "error"}
SweepMutAgeChecked(job, t) ==
    job.status \in Terminal /\ t - job.createdAt >= SweepIntervalMs
SweepDeletes(job, t) == job.status = "done" \/ job.status = "error"

SweepMap(map, t) ==
    [id \in JobIds |->
        IF map[id] # NoJob /\ SweepDeletes(map[id], t) THEN NoJob ELSE map[id]]
NoTrack == UNCHANGED <<jobStatusMap, statusLog>>

\* a tracker write together with its history: T is [map, log]
Cur == [map |-> jobStatusMap, log |-> statusLog]
Set(T, jobId, status, source, message, t) ==
    [map |-> setJobStatus(T.map, jobId, status, source, message, t),
     log |-> [T.log EXCEPT ![jobId] =
                 IF @ # <<>> /\ @[Len(@)] = status THEN @ ELSE Append(@, status)]]
Track(T) ==
    /\ jobStatusMap' = T.map
    /\ statusLog' = T.log

\* the retention window the specification speaks of (observed: 10 minutes)
RetentionWindowMs == SweepIntervalMs

JobInit ==
    /\ now = 0
    /\ lastSweep = 0
    /\ jobStatusMap = [id \in JobIds |-> NoJob]
    /\ nextJobId = 0
    /\ jobKind = [id \in JobIds |-> "none"]
    /\ jobPc = [id \in JobIds |-> "unused"]
    /\ jobStep = [id \in JobIds |-> 0]
    /\ jobSource = [id \in JobIds |-> "unknown"]
    /\ jobContent = [id \in JobIds |-> "none"]
    /\ queuedResponses = {}
    /\ statusLog = [id \in JobIds |-> <<>>]
    /\ sweptOld = {}
    /\ sweptYoung = {}

Removed(map, t) ==
    {id \in JobIds : map[id] # NoJob /\ SweepMap(map, t)[id] = NoJob}

\* time passes; the interval timer fires as soon as it is due
Tick ==
    /\ now < MaxTicks * TickMs
    /\ now - lastSweep < SweepIntervalMs
    /\ now' = now + TickMs
    /\ UNCHANGED <<lastSweep, jobStatusMap, nextJobId, jobKind, jobPc, jobStep,
                   jobSource, jobContent, queuedResponses, statusLog, sweptOld,
                   sweptYoung>>
    /\ UNCHANGED <<localVars, storeVars, fetchVars, extVars>>

\* the setInterval callback of jobs.ts
Sweep ==
    /\ now - lastSweep >= SweepIntervalMs
    /\ lastSweep' = now
    /\ jobStatusMap' = SweepMap(jobStatusMap, now)
    /\ sweptOld' = sweptOld \cup
           {id \in Removed(jobStatusMap, now) :
                now - jobStatusMap[id].createdAt >= RetentionWindowMs}
    /\ sweptYoung' = sweptYoung \cup
           {id \in Removed(jobStatusMap, now) :
                now - jobStatusMap[id].createdAt < RetentionWindowMs}
    /\ UNCHANGED <<now, nextJobId, jobKind, jobPc, jobStep, jobSource,
                   jobContent, queuedResponses, statusLog>>
    /\ UNCHANGED <<localVars, storeVars, fetchVars, extVars>>

NewJob(id, kind, pc, source) ==
    /\ nextJobId < MaxJobs
    /\ id = nextJobId + 1
    /\ nextJobId' = id
    /\ jobKind' = [jobKind EXCEPT ![id] = kind]
    /\ jobPc' = [jobPc EXCEPT ![id] = pc]
    /\ jobSource' = [jobSource EXCEPT ![id] = source]

JobFrame ==
    /\ UNCHANGED <<now, lastSweep, sweptOld, sweptYoung>>
    /\ UNCHANGED <<localVars, storeVars, fetchVars, extVars>>

(***************************************************************************)
(* POST /articles/local/fetch/:sourceName                                  *)
(***************************************************************************)
\* the handler up to res.json: the row is set to queued, then the background
\* task runs to its first await (fetchArticlesForSource) and sets running
fetchSingleLocalSourceHandler(id, source) ==
    /\ NewJob(id, "localFetch", "fetch", source)
    /\ Track(Set(
                Set(Cur, id, "queued", source, NoMessage, now),
                id, "running", source, NoMessage, now))
    /\ queuedResponses' = queuedResponses \cup {id}
    /\ UNCHANGED <<jobStep, jobContent>>
    /\ JobFrame

\* fetchArticlesForSource resolves: with articles the task awaits addUnique,
\* with none it sets done; a rejection sets error
LocalFetchReturns(id, outcome) ==
    /\ jobKind[id] = "localFetch" /\ jobPc[id] = "fetch"
    /\ \/ /\ outcome = "articles"
          /\ jobPc' = [jobPc EXCEPT ![id] = "store"]
          /\ NoTrack
       \/ /\ outcome = "empty"
          /\ jobPc' = [jobPc EXCEPT ![id] = "finished"]
          /\ Track(Set(Cur, id, "done", jobSource[id],
                                NoMessage, now))
       \/ /\ outcome = "throw"
          /\ jobPc' = [jobPc EXCEPT ![id] = "finished"]
          /\ Track(Set(Cur, id, "error", jobSource[id],
                                Msg("err.message", 0), now))
    /\ UNCHANGED <<nextJobId, jobKind, jobStep, jobSource, jobContent,
                   queuedResponses>>
    /\ JobFrame

LocalStoreReturnsMutThrowUncaught(id, outcome) ==
    /\ jobKind[id] = "localFetch" /\ jobPc[id] = "store"
    /\ jobPc' = [jobPc EXCEPT ![id] = "finished"]
    /\ \/ /\ outcome = "ok"
          /\ Track(Set(Cur, id, "done", jobSource[id],
                                NoMessage, now))
       \/ /\ outcome = "throw"
          /\ NoTrack
    /\ UNCHANGED <<nextJobId, jobKind, jobStep, jobSource, jobContent,
                   queuedResponses>>
    /\ JobFrame

\* addUniqueLocalArticles resolves or rejects
LocalStoreReturns(id, outcome) ==
    /\ jobKind[id] = "localFetch" /\ jobPc[id] = "store"
    /\ jobPc' = [jobPc EXCEPT ![id] = "finished"]
    /\ \/ /\ outcome = "ok"
          /\ Track(Set(Cur, id, "done", jobSource[id],
                                NoMessage, now))
       \/ /\ outcome = "throw"
          /\ Track(Set(Cur, id, "error", jobSource[id],
                                Msg("err.message", 0), now))
    /\ UNCHANGED <<nextJobId, jobKind, jobStep, jobSource, jobContent,
                   queuedResponses>>
    /\ JobFrame

(***************************************************************************)
(* GET /articles/local/full -> analyzeArticleJob -> analyzeArticle         *)
(***************************************************************************)
\* analyzeArticleJob up to its return, and the handler's res.json
analyzeArticleJob(id, source, content) ==
    /\ NewJob(id, "analyze", "timer", source)
    /\ jobContent' = [jobContent EXCEPT ![id] = content]
    /\ Track(Set(Cur, id, "queued", source,
                          Msg("Queued", 0), now))
    /\ queuedResponses' = queuedResponses \cup {id}
    /\ UNCHANGED jobStep
    /\ JobFrame

\* the head of the steps loop for step k: past the last step the job is done,
\* otherwise the row is set to running and the task awaits callPythonAI
LoopHead(T, id, source, k, t) ==
    IF k > NumSteps
    THEN [T |-> Set(T, id, "done", source, Msg("Analysis completed", 0), t),
          pc |-> "finished", step |-> 0]
    ELSE [T |-> Set(T, id, "running", source, Msg("Running", k), t),
          pc |-> "ai", step |-> k]

\* analyzeArticle from its call to its first await
analyzeArticleNoReturn(T, id, source, content, t) ==
    IF content = "empty"
    THEN LoopHead(Set(T, id, "error", source, Msg("No content to analyze", 0), t),
                  id, source, 1, t)
    ELSE LoopHead(T, id, source, 1, t)
analyzeArticle(T, id, source, content, t) ==
    IF content = "empty"
    THEN [T |-> Set(T, id, "error", source, Msg("No content to analyze", 0), t),
          pc |-> "finished", step |-> 0]
    ELSE LoopHead(T, id, source, 1, t)

Resume(id, r) ==
    /\ Track(r.T)
    /\ jobPc' = [jobPc EXCEPT ![id] = r.pc]
    /\ jobStep' = [jobStep EXCEPT ![id] = r.step]
    /\ UNCHANGED <<nextJobId, jobKind, jobSource, jobContent, queuedResponses>>
    /\ JobFrame

\* the setTimeout(0) callback of analyzeArticleJob
AnalysisTimerFires(id) ==
    /\ jobKind[id] = "analyze" /\ jobPc[id] = "timer"
    /\ Resume(id, analyzeArticle(
                     Set(Cur, id, "running", jobSource[id],
                                  Msg("Analysis started", 0), now),
                     id, jobSource[id], jobContent[id], now))

\* callPythonAI resolves and the step's result is read: the row is set to
\* running ("<key> done") and the loop goes on; reading the result throws
\* (a null body) and the catch block awaits addDebugLog
AiCallReturns(id, outcome) ==
    /\ jobKind[id] = "analyze" /\ jobPc[id] = "ai"
    /\ \/ /\ outcome = "ok"
          /\ Resume(id, LoopHead(
                   Set(Cur, id, "running", jobSource[id],
                                Msg("done", jobStep[id]), now),
                   id, jobSource[id], jobStep[id] + 1, now))
       \/ /\ outcome = "throw"
          /\ Resume(id, [T |-> Cur, pc |-> "log",
                         step |-> jobStep[id]])

\* addDebugLog resolves in the catch block: running ("<key> failed"), loop on
DebugLogReturns(id) ==
    /\ jobKind[id] = "analyze" /\ jobPc[id] = "log"
    /\ Resume(id, LoopHead(
             Set(Cur, id, "running", jobSource[id],
                          Msg("failed", jobStep[id]), now),
             id, jobSource[id], jobStep[id] + 1, now))

(***************************************************************************)
(* GET /articles/fetch and GET /articles/fetch/:source                     *)
(***************************************************************************)
\* both handlers draw a job id, start the background task and answer
\* {jobId, status: "queued"}; neither calls setJobStatus
fetchArticlesHandler(id) ==
    /\ NewJob(id, "bulk", "background", "all")
    /\ queuedResponses' = queuedResponses \cup {id}
    /\ UNCHANGED <<jobStep, jobContent>>
    /\ NoTrack
    /\ JobFrame

fetchSingleSourceHandler(id, source) ==
    /\ NewJob(id, "single", "background", source)
    /\ queuedResponses' = queuedResponses \cup {id}
    /\ UNCHANGED <<jobStep, jobContent>>
    /\ NoTrack
    /\ JobFrame

\* the background task of either handler ends (errors are only logged)
BackgroundFetchEnds(id) ==
    /\ jobKind[id] \in {"bulk", "single"} /\ jobPc[id] = "background"
    /\ jobPc' = [jobPc EXCEPT ![id] = "finished"]
    /\ UNCHANGED <<nextJobId, jobKind, jobStep, jobSource, jobContent,
                   queuedResponses>>
    /\ NoTrack
    /\ JobFrame

NextJobs ==
    \/ Tick
    \/ Sweep
    \/ \E id \in JobIds, s \in SourceNames : fetchSingleLocalSourceHandler(id, s)
    \/ \E id \in JobIds, o \in {"articles", "empty", "throw"} :
           LocalFetchReturns(id, o)
    \/ \E id \in JobIds, o \in {"ok", "throw"} : LocalStoreReturns(id, o)
    \/ \E id \in JobIds, s \in SourceNames, c \in {"empty", "text"} :
           analyzeArticleJob(id, s, c)
    \/ \E id \in JobIds : AnalysisTimerFires(id)
    \/ \E id \in JobIds, o \in {"ok", "throw"} : AiCallReturns(id, o)
    \/ \E id \in JobIds : DebugLogReturns(id)
    \/ \E id \in JobIds : fetchArticlesHandler(id)
    \/ \E id \in JobIds, s \in SourceNames : fetchSingleSourceHandler(id, s)
    \/ \E id \in JobIds : BackgroundFetchEnds(id)

(***************************************************************************)
(* Job tracker claims                                                      *)
(***************************************************************************)
Rank(status) == CASE status = "queued" -> 0
                  [] status = "running" -> 1
                  [] OTHER -> 2
Swept == sweptOld \cup sweptYoung
SweepStep == lastSweep' # lastSweep
Present(id) == jobStatusMap[id] # NoJob

\* C1: for every job id the statuses recorded by setJobStatus form a
\* non-decreasing walk queued -> running -> {done | error}: no recorded status
\* ranks below the one before it, a terminal status is the last one recorded,
\* and a row the sweep removed is never written again.
C1_StatusMonotone ==
    \A id \in JobIds :
        /\ \A i \in 1..(Len(statusLog[id]) - 1) :
               /\ Rank(statusLog[id][i]) <= Rank(statusLog[id][i + 1])
               /\ statusLog[id][i] \notin Terminal
        /\ id \in Swept => ~Present(id)
        /\ Present(id) =>
               jobStatusMap[id].status = statusLog[id][Len(statusLog[id])]

\* an analysis job on an article without content has gone queued, running,
\* error and its task has ended, and a finished fetch job has been swept
C1_Witness ==
    /\ \E id \in JobIds :
           /\ jobKind[id] = "analyze" /\ jobPc[id] = "finished"
           /\ statusLog[id] = <<"queued", "running", "error">>
    /\ \E id \in Swept : statusLog[id] = <<"queued", "running", "done">>

\* C2: a sweep leaves every queued or running row in the tracker, unchanged,
\* whatever its age.
C2_SweepKeepsActive ==
    [][SweepStep =>
          \A id \in JobIds :
              (Present(id) /\ jobStatusMap[id].status \in NonTerminal)
                  => jobStatusMap'[id] = jobStatusMap[id]]_vars

\* a row that was running when the last sweep ran, a retention window or more
\* after it was last written, is still in the tracker as it was
C2_Witness ==
    \E id \in JobIds :
        /\ Present(id) /\ jobStatusMap[id].status = "running"
        /\ lastSweep > 0
        /\ lastSweep - jobStatusMap[id].createdAt >= RetentionWindowMs

\* C3 (as stated): a row that reached done or error less than the retention
\* window before a sweep is still in the tracker after that sweep.
C3_YoungTerminalSurvives ==
    [][SweepStep =>
          \A id \in JobIds :
              (/\ Present(id)
               /\ jobStatusMap[id].status \in Terminal
               /\ now - jobStatusMap[id].createdAt < RetentionWindowMs)
                  => jobStatusMap'[id] = jobStatusMap[id]]_vars

\* C3 (amended): a sweep removes a row only if it is done or error, and it
\* removes such a row whatever its age, also when it reached done or error
\* less than the retention window before the sweep.
C3_SweepEvictsTerminalAtAnyAge ==
    [][SweepStep =>
          \A id \in JobIds :
              /\ (Present(id) /\ jobStatusMap'[id] = NoJob)
                     => jobStatusMap[id].status \in Terminal
              /\ (/\ Present(id)
                  /\ jobStatusMap[id].status \in Terminal
                  /\ now - jobStatusMap[id].createdAt < RetentionWindowMs)
                     => jobStatusMap'[id] = NoJob]_vars

\* a sweep has removed a row that was terminal for less than the window
C3_Witness == sweptYoung # {}

\* C4: after a sweep, every row that was done or error and older (by its
\* createdAt) than the retention window when the sweep began is gone from the
\* tracker.
C4_SweepEvictsOldTerminal ==
    [][SweepStep =>
          \A id \in JobIds :
              (/\ Present(id)
               /\ jobStatusMap[id].status \in Terminal
               /\ now - jobStatusMap[id].createdAt >= RetentionWindowMs)
                  => getJobStatus(jobStatusMap', id) = NoJob]_vars

\* a sweep has removed a done row and an error row, each terminal for at
\* least the retention window
C4_Witness ==
    /\ \E id \in sweptOld : statusLog[id][Len(statusLog[id])] = "done"
    /\ \E id \in sweptOld : statusLog[id][Len(statusLog[id])] = "error"

\* C5 (as stated): a later setJobStatus on an id that has a row leaves the
\* row's createdAt as the first insert stamped it.
C5_CreatedAtPreserved ==
    [][\A id \in JobIds :
          (Present(id) /\ jobStatusMap'[id] # NoJob)
              => jobStatusMap'[id].createdAt = jobStatusMap[id].createdAt]_vars

\* C6 (as stated): every job id sent in a "queued" response has a row in the
\* tracker until a sweep removes it.
C6_QueuedJobsTracked ==
    \A id \in queuedResponses : Present(id) \/ id \in Swept

(***************************************************************************)
(* Local article store: p2p/orbitdb/stores/articles/local add, addUnique   *)
(***************************************************************************)
Urls == {"u1", "u2"}
Contents == {"", "c1", "c2"}
NoHash == "undefined"
NoDoc == [url |-> "undefined"]
Ids == {"i1", "i2"}
Articles == [url : Urls, content : Contents, ipfsHash : {NoHash}, id : {"i1"}]
Batches == UNION {[1..n -> Articles] : n \in 0..MaxBatch}
Tasks == 1..MaxTasks

\* saveArticleToIPFS: the content identifier of a document's content
CidOf(doc) == <<"cid", doc.content>>

IdleTask == [pc |-> "idle", kind |-> "none", batch |-> <<>>, idx |-> 0,
             overwrite |-> FALSE, doc |-> NoDoc, added |-> 0, results |-> <<>>]
NoSnapshot == [db |-> [u \in Urls |-> NoDoc], blobs |-> {}]

LocalInit ==
    /\ heliaInstance = TRUE
    /\ articleLocalDB = [u \in Urls |-> NoDoc]
    /\ blobStore = {}
    /\ task = [t \in Tasks |-> IdleTask]
    /\ callStart = NoSnapshot
    /\ addedBy = [u \in Urls |-> 0]

\* add returns r: the call is over for a single add; addUnique counts a truthy
\* result and goes on to its next article (add(article, false) runs to its
\* await db.get) or returns
AddReturns(tr, r) ==
    LET counted == [tr EXCEPT !.results = Append(@, r),
                              !.added = IF r = "true" THEN @ + 1 ELSE @]
    IN  IF tr.kind = "addUnique" /\ tr.idx < Len(tr.batch)
        THEN [counted EXCEPT !.idx = tr.idx + 1,
                             !.doc = tr.batch[tr.idx + 1],
                             !.pc = "get"]
        ELSE [counted EXCEPT !.pc = "returned"]

\* add past its overwrite check, up to its next await: getHelia throws and add
\* returns false, or the content is saved to IPFS first, or db.put is called
PastCheck(tr, helia) ==
    IF ~helia
    THEN AddReturns(tr, "false")
    ELSE IF tr.doc.content # "" /\ tr.doc.ipfsHash = NoHash
         THEN [tr EXCEPT !.pc = "ipfs"]
         ELSE [tr EXCEPT !.pc = "put"]

\* the start of add(doc, overwrite), up to its first await
AddBegins(tr, helia) ==
    IF ~tr.overwrite THEN [tr EXCEPT !.pc = "get"] ELSE PastCheck(tr, helia)

\* the task's record after a step
Step(t, tr, snapshot) ==
    /\ task' = [task EXCEPT ![t] = tr]
    /\ callStart' = IF Cardinality({u \in Tasks : task'[u].pc # "idle"}) = 1
                    THEN snapshot ELSE NoSnapshot
    /\ addedBy' = IF /\ ~tr.overwrite
                     /\ Len(tr.results) > Len(task[t].results)
                     /\ tr.results[Len(tr.results)] = "true"
                  THEN [addedBy EXCEPT ![task[t].doc.url] = @ + 1]
                  ELSE addedBy

LocalFrame == UNCHANGED <<jobVars, storeVars, fetchVars, extVars>>

Snapshot == [db |-> articleLocalDB, blobs |-> blobStore]

\* a call runs in the first task that is free
FreeTask(t) ==
    /\ task[t].pc = "idle"
    /\ \A u \in Tasks : u < t => task[u].pc # "idle"

\* a caller (POST /articles/local/save, or any other) calls add(doc, overwrite)
CallAdd(t, doc, overwrite) ==
    /\ FreeTask(t)
    /\ Step(t, AddBegins([IdleTask EXCEPT !.kind = "add", !.batch = <<doc>>,
                                          !.idx = 1, !.doc = doc,
                                          !.overwrite = overwrite],
                         heliaInstance),
            Snapshot)
    /\ UNCHANGED <<heliaInstance, articleLocalDB, blobStore>>
    /\ LocalFrame

\* a caller calls addUnique(batch): an empty batch returns 0 at once
CallAddUnique(t, batch) ==
    /\ FreeTask(t)
    /\ Step(t, IF batch = <<>>
               THEN [IdleTask EXCEPT !.kind = "addUnique", !.pc = "returned"]
               ELSE [IdleTask EXCEPT !.kind = "addUnique", !.batch = batch,
                                     !.idx = 1, !.doc = batch[1], !.pc = "get"],
            Snapshot)
    /\ UNCHANGED <<heliaInstance, articleLocalDB, blobStore>>
    /\ LocalFrame

\* await db.get(doc.url) resolves: an existing record makes add return null
GetReturns(t) ==
    /\ task[t].pc = "get"
    /\ Step(t, IF articleLocalDB[task[t].doc.url] # NoDoc
               THEN AddReturns(task[t], "null")
               ELSE PastCheck(task[t], heliaInstance),
            callStart)
    /\ UNCHANGED <<heliaInstance, articleLocalDB, blobStore>>
    /\ LocalFrame

\* await saveArticleToIPFS resolves with a cid (stamped on the document), with
\* no cid, or rejects (logged); db.put is called next
IpfsReturns(t, outcome) ==
    /\ task[t].pc = "ipfs"
    /\ \/ /\ outcome = "cid"
          /\ blobStore' = blobStore \cup {CidOf(task[t].doc)}
          /\ Step(t, [task[t] EXCEPT !.doc.ipfsHash = CidOf(task[t].doc),
                                     !.pc = "put"], callStart)
       \/ /\ outcome \in {"none", "throw"}
          /\ blobStore' = blobStore
          /\ Step(t, [task[t] EXCEPT !.pc = "put"], callStart)
    /\ UNCHANGED <<heliaInstance, articleLocalDB>>
    /\ LocalFrame

\* await db.put(doc) resolves: the record under doc.url is inserted or replaced
PutReturns(t) ==
    /\ task[t].pc = "put"
    /\ articleLocalDB' = [articleLocalDB EXCEPT ![task[t].doc.url] = task[t].doc]
    /\ Step(t, [task[t] EXCEPT !.pc = "log"], callStart)
    /\ UNCHANGED <<heliaInstance, blobStore>>
    /\ LocalFrame

\* await addDebugLog resolves and add returns true
LogReturns(t) ==
    /\ task[t].pc = "log"
    /\ Step(t, AddReturns(task[t], "true"), callStart)
    /\ UNCHANGED <<heliaInstance, articleLocalDB, blobStore>>
    /\ LocalFrame

\* the caller takes the returned value (and answers its request)
Collect(t) ==
    /\ task[t].pc = "returned"
    /\ Step(t, IdleTask, callStart)
    /\ UNCHANGED <<heliaInstance, articleLocalDB, blobStore>>
    /\ LocalFrame

initHelia ==
    /\ ~heliaInstance
    /\ heliaInstance' = TRUE
    /\ UNCHANGED <<articleLocalDB, blobStore, task, callStart, addedBy>>
    /\ LocalFrame

resetHelia ==
    /\ heliaInstance
    /\ heliaInstance' = FALSE
    /\ UNCHANGED <<articleLocalDB, blobStore, task, callStart, addedBy>>
    /\ LocalFrame

NoCallRunning == \A t \in Tasks : task[t].pc = "idle"

\* calls one at a time
CallAddAlone(t, doc, overwrite) == NoCallRunning /\ CallAdd(t, doc, overwrite)
CallAddUniqueAlone(t, batch) == NoCallRunning /\ CallAddUnique(t, batch)

NextLocal ==
    \/ \E t \in Tasks, d \in Articles, o \in BOOLEAN : CallAddAlone(t, d, o)
    \/ \E t \in Tasks, b \in Batches : CallAddUniqueAlone(t, b)
    \/ \E t \in Tasks : GetReturns(t)
    \/ \E t \in Tasks, o \in {"cid", "none", "throw"} : IpfsReturns(t, o)
    \/ \E t \in Tasks : PutReturns(t)
    \/ \E t \in Tasks : LogReturns(t)
    \/ \E t \in Tasks : Collect(t)
    \/ initHelia
    \/ resetHelia

\* calls that overlap (two requests, two background fetch jobs), all of them
\* about articles of one url that have content
ConcArticles == {a \in Articles : a.url = "u1" /\ a.content # ""}
ConcBatches == UNION {[1..n -> ConcArticles] : n \in 0..MaxBatch}

NextLocalConc ==
    \/ \E t \in Tasks, d \in ConcArticles, o \in BOOLEAN : CallAdd(t, d, o)
    \/ \E t \in Tasks, b \in ConcBatches : CallAddUnique(t, b)
    \/ \E t \in Tasks : GetReturns(t)
    \/ \E t \in Tasks, o \in {"cid", "none", "throw"} : IpfsReturns(t, o)
    \/ \E t \in Tasks : PutReturns(t)
    \/ \E t \in Tasks : LogReturns(t)
    \/ \E t \in Tasks : Collect(t)
    \/ initHelia
    \/ resetHelia

\* callers that hand add a document with an id of their own: request bodies of
\* POST /articles/local/save, documents built by saveFullArticleContent and
\* getFullArticle
IdArticles == [url : Urls, content : {"c1", "c2"}, ipfsHash : {NoHash}, id : Ids]

\* POST /articles/local/save: a body without url, title or content is
\* answered 400; otherwise add(req.body, overwrite)
saveLocalArticleHandler(t, body, overwrite) ==
    /\ body.url # "" /\ body.content # ""
    /\ CallAddAlone(t, body, overwrite)

\* saveFullArticleContent with the store's own accessors: the existing record
\* is read and spread into the updated one, a missing record gets a fresh id;
\* then saveLocalArticle(updated, helia, overwrite)
saveFullArticleContent(t, url, content, freshId, overwrite) ==
    LET existing == articleLocalDB[url]
        base == IF existing # NoDoc THEN existing
                ELSE [url |-> url, content |-> content, ipfsHash |-> NoHash,
                      id |-> freshId]
        updated == [base EXCEPT !.content = content]
    IN  /\ existing = NoDoc => \A u \in Urls :
               articleLocalDB[u] # NoDoc => articleLocalDB[u].id # freshId
        /\ CallAddAlone(t, updated, overwrite)

\* getFullArticle(article) for a stored article: loadFullArticle fills in the
\* content, then add(finalArticle, overwrite) with overwrite = true
getFullArticle(t, url, content) ==
    /\ articleLocalDB[url] # NoDoc
    /\ CallAddAlone(t, [articleLocalDB[url] EXCEPT !.content = content], TRUE)

NextLocalIds ==
    \/ \E t \in Tasks, d \in IdArticles, o \in BOOLEAN :
           saveLocalArticleHandler(t, d, o)
    \/ \E t \in Tasks, u \in Urls, c \in {"c1", "c2"}, i \in Ids, o \in BOOLEAN :
           saveFullArticleContent(t, u, c, i, o)
    \/ \E t \in Tasks, u \in Urls, c \in {"c1", "c2"} : getFullArticle(t, u, c)
    \/ \E t \in Tasks : GetReturns(t)
    \/ \E t \in Tasks, o \in {"cid", "none", "throw"} : IpfsReturns(t, o)
    \/ \E t \in Tasks : PutReturns(t)
    \/ \E t \in Tasks : LogReturns(t)
    \/ \E t \in Tasks : Collect(t)

(***************************************************************************)
(* Local store claims                                                      *)
(***************************************************************************)
BatchUrls(batch) == {batch[i].url : i \in 1..Len(batch)}
FirstWith(batch, u) ==
    batch[CHOOSE i \in 1..Len(batch) :
              /\ batch[i].url = u
              /\ \A j \in 1..(i - 1) : batch[j].url # u]
Returned(t, kind) == task[t].kind = kind /\ task[t].pc = "returned"

\* C7 (as stated): when an addUnique call, run with no other call, returns,
\* its count is the number of distinct urls of its batch that had no record
\* when the call began; every record that was there is unchanged; and each of
\* those new urls has one record, with the content of the first article of the
\* batch under that url.
C7_AddUniqueCountsNewUrls ==
    \A t \in Tasks :
        Returned(t, "addUnique") =>
            LET batch == task[t].batch
                new == {u \in BatchUrls(batch) : callStart.db[u] = NoDoc}
            IN  /\ task[t].added = Cardinality(new)
                /\ \A u \in Urls \ new : articleLocalDB[u] = callStart.db[u]
                /\ \A u \in new :
                       /\ articleLocalDB[u] # NoDoc
                       /\ articleLocalDB[u].content = FirstWith(batch, u).content

\* C8 (as stated): of the add(article, false) calls that carry the same new
\* url, overlapping or not, exactly one reports the article as added.
C8_OneWriterPerUrl == \A u \in Urls : addedBy[u] <= 1

\* C9 (as stated): add(doc, false) on a url that has a record returns null and
\* leaves the store and the blob store as they were; add with overwrite, or
\* on a url without a record, returns true with the document stored.
C9_AddSkipsOrPersists ==
    \A t \in Tasks :
        Returned(t, "add") =>
            LET doc == task[t].batch[1]
            IN  IF ~task[t].overwrite /\ callStart.db[doc.url] # NoDoc
                THEN /\ task[t].results = <<"null">>
                     /\ articleLocalDB = callStart.db
                     /\ blobStore = callStart.blobs
                ELSE /\ task[t].results = <<"true">>
                     /\ articleLocalDB[doc.url] # NoDoc
                     /\ articleLocalDB[doc.url].content = doc.content

\* C11 (as stated): no local-store add ends without writing because the blob
\* store is not initialised, unreachable or failing: every add that is not
\* skipped as a duplicate returns true.
C11_BlobStoreBestEffort ==
    \A t \in Tasks :
        \A i \in 1..Len(task[t].results) : task[t].results[i] # "false"

\* C12 (as stated): once a url has a record, no step changes the id of the
\* record stored under that url.
C12_IdNeverReassigned ==
    [][\A u \in Urls :
           articleLocalDB[u] # NoDoc =>
               /\ articleLocalDB'[u] # NoDoc
               /\ articleLocalDB'[u].id = articleLocalDB[u].id]_vars

(***************************************************************************)
(* Analyzed and federated stores: add                                      *)
(***************************************************************************)
AnalyzedIds == {"a1", "a2"}
FederatedCids == {"cidA", "cidB"}
Titles == {"t1", "t2"}
AnalyzedEntries == [id : AnalyzedIds, title : Titles]
FederatedArticles == [cid : FederatedCids, title : Titles]
NoEntry == [title |-> "undefined"]

StoresInit ==
    /\ articleAnalyzedDB = [i \in AnalyzedIds |-> NoEntry]
    /\ articleFederatedDB = [c \in FederatedCids |-> NoEntry]
    /\ storeCall = [fn |-> "none"]

StoresFrame == UNCHANGED <<jobVars, localVars, fetchVars, extVars>>

Called(fn, key, skipExists, before, result) ==
    storeCall' = [fn |-> fn, key |-> key, skipExists |-> skipExists,
                  before |-> before, result |-> result]

\* analyzed/add.ts, the version that reads the instance with getInstance():
\* unless skipExists, an existing entry makes add return null; db.put may
\* reject, which is caught and returns null
analyzedAdd(entry, skipExists, putOutcome) ==
    /\ IF ~skipExists /\ articleAnalyzedDB[entry.id] # NoEntry
       THEN /\ UNCHANGED articleAnalyzedDB
            /\ Called("analyzedAdd", entry.id, skipExists,
                      articleAnalyzedDB[entry.id], "null")
       ELSE IF putOutcome = "ok"
       THEN /\ articleAnalyzedDB' = [articleAnalyzedDB EXCEPT ![entry.id] = entry]
            /\ Called("analyzedAdd", entry.id, skipExists,
                      articleAnalyzedDB[entry.id], "entry")
       ELSE /\ UNCHANGED articleAnalyzedDB
            /\ Called("analyzedAdd", entry.id, skipExists,
                      articleAnalyzedDB[entry.id], "null")
    /\ UNCHANGED articleFederatedDB
    /\ StoresFrame

\* analyzed/add.ts, the version that reads the instance with
\* getArticleAnalyzedDB(): the existence check runs only if skipExists; a
\* rejected db.put is logged and the entry is returned all the same
analyzedAddOlder(entry, skipExists, putOutcome) ==
    /\ IF skipExists /\ articleAnalyzedDB[entry.id] # NoEntry
       THEN /\ UNCHANGED articleAnalyzedDB
            /\ Called("analyzedAddOlder", entry.id, skipExists,
                      articleAnalyzedDB[entry.id], "null")
       ELSE /\ articleAnalyzedDB' =
                   IF putOutcome = "ok"
                   THEN [articleAnalyzedDB EXCEPT ![entry.id] = entry]
                   ELSE articleAnalyzedDB
            /\ Called("analyzedAddOlder", entry.id, skipExists,
                      articleAnalyzedDB[entry.id], "entry")
    /\ UNCHANGED articleFederatedDB
    /\ StoresFrame

\* federated/add.ts (both versions): db.put(article), a rejection is logged
federatedAdd(article, putOutcome) ==
    /\ articleFederatedDB' =
           IF putOutcome = "ok"
           THEN [articleFederatedDB EXCEPT ![article.cid] = article]
           ELSE articleFederatedDB
    /\ Called("federatedAdd", article.cid, FALSE,
              articleFederatedDB[article.cid], "undefined")
    /\ UNCHANGED articleAnalyzedDB
    /\ StoresFrame

NextStores ==
    \/ \E e \in AnalyzedEntries, k \in BOOLEAN, o \in {"ok", "throw"} :
           analyzedAdd(e, k, o)
    \/ \E e \in AnalyzedEntries, k \in BOOLEAN, o \in {"ok", "throw"} :
           analyzedAddOlder(e, k, o)
    \/ \E a \in FederatedArticles, o \in {"ok", "throw"} : federatedAdd(a, o)

(***************************************************************************)
(* Analyzed and federated store claims                                     *)
(***************************************************************************)
\* C10 (as stated): an add on the analyzed store that does not ask to skip the
\* existence check, and any add on the federated store, leaves a record that
\* already exists under the key as it was; on the analyzed store it returns
\* null.
C10_AddNeverReplaces ==
    (storeCall.fn # "none" /\ ~storeCall.skipExists
        /\ storeCall.before # NoEntry) =>
        IF storeCall.fn = "federatedAdd"
        THEN articleFederatedDB[storeCall.key] = storeCall.before
        ELSE /\ articleAnalyzedDB[storeCall.key] = storeCall.before
             /\ storeCall.result = "null"

(***************************************************************************)
(* Progress events: lib/log.ts setBroadcastFn, broadcast                   *)
(***************************************************************************)
\* "ws" is the WebSocket fan-out installed by httpServer.ts; "bad" is a sink
\* that throws on every event
Sinks == {"ws", "bad"}
NoSink == "null"
SinkThrows(fn) == fn = "bad"

InstallSinkMutKeepsFirst(cur, fn) == IF cur = NoSink THEN fn ELSE cur
\* setBroadcastFn(fn): broadcastFn = fn
InstallSink(cur, fn) == fn

broadcastMutPropagates(fn, event) ==
    [invoked |-> IF fn = NoSink THEN <<>> ELSE <<fn>>,
     threw |-> fn # NoSink /\ SinkThrows(fn)]
\* broadcast(event): the sink, if there is one, is called once with the event;
\* whatever it throws is caught and dropped
broadcast(fn, event) ==
    [invoked |-> IF fn = NoSink THEN <<>> ELSE <<fn>>, threw |-> FALSE]

Event(type, source) == [type |-> type, source |-> source]

\* the broadcast block of addDebugLog: as broadcast, with its own try/catch
debugLogBroadcast(fn, event) ==
    [invoked |-> IF fn = NoSink THEN <<>> ELSE <<fn>>, threw |-> FALSE]

\* one call of broadcast or of addDebugLog, by the type of the event
Deliver(fn, event) ==
    IF event.type = "debug-log" THEN debugLogBroadcast(fn, event)
    ELSE broadcast(fn, event)

\* the run broadcasts the events evs, in order
Emit(rr, fn, evs) ==
    [rr EXCEPT !.events = @ \o evs,
               !.sunk = @ \o [i \in 1..Len(evs) |-> Deliver(fn, evs[i]).invoked],
               !.escaped = @ \/ \E i \in 1..Len(evs) : Deliver(fn, evs[i]).threw]

(***************************************************************************)
(* Fetch pipeline: fetchSingleSource, fetchAllLocalSources,                *)
(* fetchArticlesForSource and the handlers that run them                   *)
(***************************************************************************)
SrcNames == {"A", "B"}
Sources == [name : SrcNames, enabled : BOOLEAN]
EndpointOf(name) == <<"endpoint", name>>
\* one source, or source A followed by source B
SourceLists ==
    {<<s>> : s \in Sources}
        \cup {<<a, b>> : a \in {s \in Sources : s.name = "A"},
                         b \in {s \in Sources : s.name = "B"}}

RawItems == [valid : BOOLEAN]
RawLists == UNION {[1..n -> RawItems] : n \in 0..MaxItems}
HttpStatus == 500
FetchOutcomes ==
    {[kind |-> k, status |-> IF k = "http" THEN HttpStatus ELSE 0, items |-> <<>>] :
         k \in {"http", "throw", "notArray"}}
        \cup {[kind |-> "ok", status |-> 200, items |-> l] : l \in RawLists}
Statuses == {"success", "error"}
TranslateOutcomes(n) ==
    {[kind |-> "throw", st |-> <<>>]}
        \cup {[kind |-> "ok", st |-> s] : s \in [1..n -> Statuses]}

\* entry points: the two collecting functions, and the handlers' background
\* tasks around fetchArticlesForSource / fetchArticlesForSingleSource
Collecting == {"fetchSingleSource", "fetchAllLocalSources"}
Looping == {"fetchAllLocalSources", "bulk", "bulkWs"}
Broadcasting == {"bulk", "single", "local", "bulkWs", "singleWs"}
Kinds == Collecting \cup Broadcasting

IdleRun == [kind |-> "none", pc |-> "idle", queue |-> <<>>, idx |-> 0,
            skip |-> TRUE, items |-> <<>>, articles |-> <<>>, errors |-> <<>>,
            warnings |-> 0, failed |-> {}, escaped |-> FALSE, events |-> <<>>,
            sunk |-> <<>>, steps |-> <<>>, requested |-> {}, stored |-> <<>>,
            inp |-> <<>>, trs |-> <<>>, sources |-> <<>>]

FetchInit ==
    /\ broadcastFn = NoSink
    /\ installed = NoSink
    /\ run = [r \in Runs |-> IdleRun]

FetchFrame == UNCHANGED <<jobVars, localVars, storeVars, extVars>>

\* normalizerFn(a, source), for the item at position pos of the parsed array
normalizerFn(a, source, pos) ==
    [source |-> source.name, pos |-> pos, title |-> "orig", valid |-> a.valid,
     cleaned |-> FALSE, validated |-> FALSE]

\* cleanArticlesForDB(normalized): every item cleaned, none dropped
cleanArticlesForDB(normalized) ==
    [i \in 1..Len(normalized) |-> [normalized[i] EXCEPT !.cleaned = TRUE]]

IsValidMutAcceptsAll(a) == TRUE
IsValid(a) == a.valid
IsInvalid(a) == ~a.valid

Err(source, what) == [endpoint |-> EndpointOf(source.name), error |-> what]

\* the sources a run works through: fetchSingleSource returns at once for a
\* disabled source, fetchAllLocalSources and the bulk tasks filter on enabled,
\* the single-source handlers take the source found by name as it is
QueueOf(kind, sources) ==
    IF kind \in Looping \cup {"fetchSingleSource"}
    THEN SelectSeq(sources, LAMBDA s : s.enabled)
    ELSE sources

NextSourceMutStopsAfterError(rr, fn) ==
    IF rr.idx >= Len(rr.queue) \/ (rr.errors # <<>> /\ rr.kind \in Collecting)
    THEN [rr EXCEPT !.pc = "done"]
    ELSE LET src == rr.queue[rr.idx + 1]
         IN  [rr EXCEPT !.idx = rr.idx + 1, !.pc = "fetch", !.items = <<>>,
                        !.requested = @ \cup {src.name},
                        !.steps = Append(@, <<"fetch", src.name>>)]
\* the next source of the run: its pipeline runs up to await smartFetch
NextSource(rr, fn) ==
    IF rr.idx >= Len(rr.queue)
    THEN [rr EXCEPT !.pc = "done"]
    ELSE LET src == rr.queue[rr.idx + 1]
             started == IF rr.kind \in Broadcasting
                        THEN Emit(rr, fn, <<Event("source:fetch:start", src.name)>>)
                        ELSE rr
         IN  [started EXCEPT !.idx = rr.idx + 1,
                             !.pc = "fetch",
                             !.items = <<>>,
                             !.requested = @ \cup {src.name},
                             !.steps = Append(@, <<"fetch", src.name>>)]

\* the validation loop of fetchSingleSource / fetchAllLocalSources: every
\* cleaned item that passes ArticleSchema.parse is pushed to the articles, one
\* error is pushed for every item that does not; then the next source
ValidateAndNext(rr, fn) ==
    LET src == rr.queue[rr.idx]
        clean == cleanArticlesForDB(rr.items)
        good == SelectSeq(clean, IsValid)
        bad == SelectSeq(clean, IsInvalid)
    IN  NextSource(
            [rr EXCEPT !.articles = @ \o [i \in 1..Len(good) |->
                                             [good[i] EXCEPT !.validated = TRUE]],
                       !.errors = @ \o [i \in 1..Len(bad) |-> Err(src, "invalid")],
                       !.steps = Append(@, <<"validate", src.name>>)],
            fn)

\* the end of fetchArticlesForSource / fetchArticlesForSingleSource and of the
\* handler's task around it: the cleaned articles are returned, done is
\* broadcast (the bulk task of routes/route-sources.ts broadcasts a progress
\* event per article first), and the local handler goes on to addUnique
FinishSource(rr, fn) ==
    LET src == rr.queue[rr.idx]
        clean == cleanArticlesForDB(rr.items)
        again == IF rr.kind = "bulkWs"
                 THEN [i \in 1..Len(clean) |-> Event("source:fetch:progress", src.name)]
                 ELSE <<>>
        done == Emit([rr EXCEPT !.articles = clean], fn,
                     again \o <<Event("source:fetch:done", src.name)>>)
    IN  IF rr.kind = "local" /\ Len(clean) > 0
        THEN [done EXCEPT !.pc = "store", !.steps = Append(@, <<"store", src.name>>)]
        ELSE NextSource(done, fn)

\* the pipeline of a broadcasting run throws: the error event is broadcast by
\* the catch of fetchArticlesForSource (and once more by the task of the
\* single-source handler of routes/route-sources.ts); a bulk task logs and
\* goes on with the next source
SourceFails(rr, fn) ==
    LET src == rr.queue[rr.idx]
        ev == Event("source:fetch:error", src.name)
        told == Emit([rr EXCEPT !.failed = @ \cup {src.name}], fn,
                     IF rr.kind = "singleWs" THEN <<ev, ev>> ELSE <<ev>>)
    IN  NextSource(told, fn)

\* after a parse that returned an array: normalize, broadcast progress, then
\* translate the titles (await) or go straight to the end of the pipeline
AfterParse(rr, fn, rawItems) ==
    LET src == rr.queue[rr.idx]
        normalized == [i \in 1..Len(rawItems) |-> normalizerFn(rawItems[i], src, i)]
        stepped == [rr EXCEPT !.items = normalized,
                              !.steps = @ \o <<<<"parse", src.name>>,
                                               <<"normalize", src.name>>>>]
        told == IF rr.kind \in Broadcasting
                THEN Emit(stepped, fn,
                          [i \in 1..Len(normalized) |->
                               Event("source:fetch:progress", src.name)])
                ELSE stepped
    IN  IF ~rr.skip /\ Len(normalized) > 0
        THEN [told EXCEPT !.pc = "translate",
                          !.steps = Append(@, <<"translate", src.name>>)]
        ELSE IF rr.kind \in Collecting
        THEN ValidateAndNext(told, fn)
        ELSE FinishSource(told, fn)

FreeRun(r) ==
    /\ run[r].pc = "idle"
    /\ \A q \in Runs : q < r => run[q].pc # "idle"

StartRun(r, kind, sources, skip) ==
    /\ FreeRun(r)
    /\ run' = [run EXCEPT ![r] =
                  NextSource([IdleRun EXCEPT !.kind = kind, !.sources = sources,
                                             !.queue = QueueOf(kind, sources),
                                             !.skip = skip],
                             broadcastFn)]
    /\ UNCHANGED <<broadcastFn, installed>>
    /\ FetchFrame

\* await smartFetch / response.json resolve or reject, and the pipeline runs
\* on to its next await or to its end
FetchReturns(r, o) ==
    LET rr == [run[r] EXCEPT !.inp = Append(@, [source |-> run[r].queue[run[r].idx].name,
                                                kind |-> o.kind, items |-> o.items])]
        src == rr.queue[rr.idx]
        parsed == IF o.kind = "notArray"
                  THEN [rr EXCEPT !.steps = Append(@, <<"parse", src.name>>)]
                  ELSE rr
    IN  /\ run[r].pc = "fetch"
        /\ run' = [run EXCEPT ![r] =
               IF o.kind = "ok" THEN AfterParse(rr, broadcastFn, o.items)
               ELSE IF rr.kind \in Collecting
               THEN NextSource(
                        [parsed EXCEPT !.errors = Append(@,
                            Err(src, IF o.kind = "http"
                                     THEN <<"HTTP error", o.status>>
                                     ELSE <<o.kind>>))],
                        broadcastFn)
               ELSE SourceFails(parsed, broadcastFn)]
        /\ UNCHANGED <<broadcastFn, installed>>
        /\ FetchFrame

RetitleMutDropsTitle(item, o) ==
    IF o.kind = "ok" /\ o.st[item.pos] = "success"
    THEN [item EXCEPT !.title = "translated"]
    ELSE [item EXCEPT !.title = "undefined"]
\* the title of an item after the translation returned o: the translation of
\* a title that succeeded, the original title otherwise
Retitle(item, o) ==
    IF o.kind = "ok" /\ o.st[item.pos] = "success"
    THEN [item EXCEPT !.title = "translated"]
    ELSE item

\* await translateMultipleTitlesAI resolves or rejects. fetchSingleSource gets
\* a result per title and keeps the original title of a failed one, pushing
\* an error; the other pipelines get the translated titles. A rejection is
\* caught and logged as a warning (fetchSingleSource pushes an error as well)
TranslateReturns(r, o) ==
    LET rr == run[r]
        src == rr.queue[rr.idx]
        n == Len(rr.items)
        failures == IF o.kind = "throw" THEN 1
                    ELSE Cardinality({i \in 1..n : o.st[i] = "error"})
        titled == [rr EXCEPT !.items = [i \in 1..n |-> Retitle(rr.items[i], o)],
                             !.trs = Append(@, [source |-> src.name,
                                                kind |-> o.kind, st |-> o.st]),
                             !.warnings = @ + failures,
                             !.errors = IF rr.kind = "fetchSingleSource"
                                        THEN @ \o [i \in 1..failures |->
                                                      Err(src, "translation")]
                                        ELSE @]
    IN  /\ rr.pc = "translate"
        /\ o \in TranslateOutcomes(n)
        /\ (rr.kind # "fetchSingleSource" /\ o.kind = "ok") =>
               \A i \in 1..n : o.st[i] = "success"
        /\ run' = [run EXCEPT ![r] =
               IF rr.kind \in Collecting
               THEN ValidateAndNext(titled, broadcastFn)
               ELSE FinishSource(titled, broadcastFn)]
        /\ UNCHANGED <<broadcastFn, installed>>
        /\ FetchFrame

\* await addUniqueLocalArticles(articles) resolves in the local handler's
\* task; add calls addDebugLog for every article it saved
StoreReturns(r) ==
    /\ run[r].pc = "store"
    /\ run' = [run EXCEPT ![r] =
           Emit([run[r] EXCEPT !.stored = run[r].articles, !.pc = "done"],
                broadcastFn,
                [i \in 1..Len(run[r].articles) |-> Event("debug-log", "")])]
    /\ UNCHANGED <<broadcastFn, installed>>
    /\ FetchFrame

\* the caller has the result
RunCollected(r) ==
    /\ run[r].pc = "done"
    /\ run' = [run EXCEPT ![r] = IdleRun]
    /\ UNCHANGED <<broadcastFn, installed>>
    /\ FetchFrame

setBroadcastFn(fn) ==
    /\ broadcastFn' = InstallSink(broadcastFn, fn)
    /\ installed' = fn
    /\ UNCHANGED run
    /\ FetchFrame

NoRunActive == \A r \in Runs : run[r].pc = "idle"

fetchSingleSource(r, source, skipTranslation) ==
    StartRun(r, "fetchSingleSource", <<source>>, skipTranslation)
fetchAllLocalSources(r, sources, skipTranslation) ==
    StartRun(r, "fetchAllLocalSources", sources, skipTranslation)
\* GET /articles/fetch (node-app): fetchArticlesForSource per enabled source
BulkFetchTask(r, sources, skip) == StartRun(r, "bulk", sources, skip)
\* GET /articles/fetch/:source (node-app)
SingleFetchTask(r, source, skip) == StartRun(r, "single", <<source>>, skip)
\* POST /articles/local/fetch/:sourceName
LocalFetchTask(r, source, skip) == StartRun(r, "local", <<source>>, skip)
\* GET /articles/fetch (routes/route-sources.ts)
BulkFetchTaskWs(r, sources, skip) == StartRun(r, "bulkWs", sources, skip)
\* GET /articles/fetch/:source (routes/route-sources.ts)
SingleFetchTaskWs(r, source, skip) == StartRun(r, "singleWs", <<source>>, skip)

NextFetch ==
    \/ \E r \in Runs, s \in Sources, k \in BOOLEAN :
           NoRunActive /\ fetchSingleSource(r, s, k)
    \/ \E r \in Runs, l \in SourceLists, k \in BOOLEAN :
           NoRunActive /\ fetchAllLocalSources(r, l, k)
    \/ \E r \in Runs, l \in SourceLists, k \in BOOLEAN :
           NoRunActive /\ BulkFetchTask(r, l, k)
    \/ \E r \in Runs, s \in Sources, k \in BOOLEAN :
           NoRunActive /\ SingleFetchTask(r, s, k)
    \/ \E r \in Runs, s \in Sources, k \in BOOLEAN :
           NoRunActive /\ LocalFetchTask(r, s, k)
    \/ \E r \in Runs, l \in SourceLists, k \in BOOLEAN :
           NoRunActive /\ BulkFetchTaskWs(r, l, k)
    \/ \E r \in Runs, s \in Sources, k \in BOOLEAN :
           NoRunActive /\ SingleFetchTaskWs(r, s, k)
    \/ \E r \in Runs, o \in FetchOutcomes : FetchReturns(r, o)
    \/ \E r \in Runs, o \in TranslateOutcomes(MaxItems) \cup TranslateOutcomes(1) :
           TranslateReturns(r, o)
    \/ \E r \in Runs : StoreReturns(r)
    \/ \E r \in Runs : RunCollected(r)
    \/ \E fn \in Sinks : setBroadcastFn(fn)

(***************************************************************************)
(* Fetch pipeline and progress event claims                                *)
(***************************************************************************)
Finished(r, kinds) == run[r].pc = "done" /\ run[r].kind \in kinds
ArticlesFrom(rr, name) == SelectSeq(rr.articles, LAMBDA a : a.source = name)
ErrorsAbout(rr, name, what) ==
    {k \in DOMAIN rr.errors : rr.errors[k] = [endpoint |-> EndpointOf(name),
                                               error |-> what]}
ValidPositions(items) == {i \in DOMAIN items : items[i].valid}
FetchedFrom(rr, name) ==
    rr.inp[CHOOSE j \in DOMAIN rr.inp : rr.inp[j].source = name]

\* C13: when fetchSingleSource or fetchAllLocalSources has returned, every
\* enabled source of the list was fetched; a source whose fetch failed (HTTP
\* status, exception, parse result that is no array) has an errors entry with
\* its endpoint, naming the status for an HTTP failure, and no article; a
\* source whose fetch succeeded has all its valid articles returned.
C13_FailuresIsolatedPerSource ==
    \A r \in Runs :
        Finished(r, Collecting) =>
            LET rr == run[r]
            IN  /\ Len(rr.inp) = Len(rr.queue)
                /\ \A j \in DOMAIN rr.inp :
                       LET got == rr.inp[j]
                       IN  IF got.kind = "ok"
                           THEN Len(ArticlesFrom(rr, got.source))
                                    = Cardinality(ValidPositions(got.items))
                           ELSE /\ ArticlesFrom(rr, got.source) = <<>>
                                /\ ErrorsAbout(rr, got.source,
                                       IF got.kind = "http"
                                       THEN <<"HTTP error", HttpStatus>>
                                       ELSE <<got.kind>>) # {}

C13_Witness ==
    \E r \in Runs :
        /\ Finished(r, {"fetchAllLocalSources"})
        /\ Len(run[r].inp) = 2
        /\ run[r].inp[1].kind = "http"
        /\ run[r].inp[2].kind = "ok"
        /\ Len(run[r].articles) = 2
        /\ Len(run[r].errors) = 1

\* C14 (as stated): no run sends a request to the endpoint of a source whose
\* enabled flag is false, and such a source yields no articles and no errors.
C14_DisabledNeverRequested ==
    \A r \in Runs :
        \A i \in DOMAIN run[r].sources :
            ~run[r].sources[i].enabled =>
                /\ run[r].sources[i].name \notin run[r].requested
                /\ ArticlesFrom(run[r], run[r].sources[i].name) = <<>>
                /\ \A k \in DOMAIN run[r].errors :
                       run[r].errors[k].endpoint # EndpointOf(run[r].sources[i].name)

StepRank(step) ==
    CASE step = "fetch" -> 1 [] step = "parse" -> 2 [] step = "normalize" -> 3
      [] step = "translate" -> 4 [] step = "validate" -> 5 [] step = "store" -> 6

\* C15 (as stated): the steps of one source run in the order fetch, parse,
\* normalize, translate, validate, store; after a failed fetch or parse no
\* later step of that source runs; and every article handed to the store has
\* passed schema validation.
C15_StepsInOrderValidatedBeforeStore ==
    \A r \in Runs :
        LET rr == run[r]
        IN  /\ \A i, j \in DOMAIN rr.steps :
                   (i < j /\ rr.steps[i][2] = rr.steps[j][2]) =>
                       StepRank(rr.steps[i][1]) < StepRank(rr.steps[j][1])
            /\ \A j \in DOMAIN rr.inp :
                   rr.inp[j].kind # "ok" =>
                       \A i \in DOMAIN rr.steps :
                           rr.steps[i][2] = rr.inp[j].source =>
                               StepRank(rr.steps[i][1]) <= 2
            /\ \A k \in DOMAIN rr.stored : rr.stored[k].validated

C17_ValidationFiltersPerItem ==
    \A r \in Runs :
        Finished(r, Collecting) =>
            LET rr == run[r]
            IN  \A j \in DOMAIN rr.inp :
                    rr.inp[j].kind = "ok" =>
                        LET got == rr.inp[j]
                            arts == ArticlesFrom(rr, got.source)
                        IN  /\ {arts[k].pos : k \in DOMAIN arts} = ValidPositions(got.items)
                            /\ \A k, l \in DOMAIN arts : k < l => arts[k].pos < arts[l].pos
                            /\ \A k \in DOMAIN arts : arts[k].cleaned /\ arts[k].valid
                            /\ Cardinality(ErrorsAbout(rr, got.source, "invalid"))
                                   = Len(got.items) - Cardinality(ValidPositions(got.items))

C17_Witness ==
    \E r \in Runs :
        /\ Finished(r, Collecting)
        /\ Len(run[r].inp) = 1
        /\ run[r].inp[1].kind = "ok"
        /\ run[r].inp[1].items = <<[valid |-> FALSE], [valid |-> TRUE]>>
        /\ Len(run[r].articles) = 1
        /\ Len(run[r].errors) = 1

\* C18: no call of broadcast, and no broadcast block of addDebugLog, lets an
\* exception of the sink reach the pipeline that made the call; with no sink
\* installed nothing is invoked.
C18_BroadcastNeverPropagates ==
    \A r \in Runs :
        /\ ~run[r].escaped
        /\ Len(run[r].sunk) = Len(run[r].events)
        /\ broadcast(NoSink, Event("source:fetch:start", "A")).invoked = <<>>

C18_Witness ==
    \E r \in Runs :
        /\ Finished(r, {"local"})
        /\ \E i \in DOMAIN run[r].sunk :
               run[r].sunk[i] = <<"bad">> /\ run[r].events[i].type = "source:fetch:done"
        /\ \E i \in DOMAIN run[r].sunk :
               run[r].sunk[i] = <<"bad">> /\ run[r].events[i].type = "debug-log"
        /\ Len(run[r].stored) > 0

\* C19: every event broadcast after a setBroadcastFn call invokes the sink of
\* the last such call, once, and no other sink.
C19_OnlyLastSinkInvoked ==
    [][\A r \in Runs :
           \A i \in (Len(run[r].sunk) + 1)..Len(run'[r].sunk) :
               installed # NoSink => run'[r].sunk[i] = <<installed>>]_vars

C19_Witness ==
    \E r \in Runs :
        /\ installed = "ws"
        /\ \E i, j \in DOMAIN run[r].sunk :
               /\ i < j
               /\ run[r].sunk[i] = <<"bad">>
               /\ run[r].sunk[j] = <<"ws">>

FetchEvents == {"source:fetch:start", "source:fetch:progress",
                "source:fetch:done", "source:fetch:error"}

\* C20 (as stated): among the events of a run that carry one source's name,
\* the first is source:fetch:start, there is no second start, and no event
\* follows source:fetch:done or source:fetch:error.
C20_EventsInOrder ==
    \A r \in Runs :
        LET ev == run[r].events
        IN  \A j \in DOMAIN ev :
                ev[j].type \in FetchEvents =>
                    /\ \E i \in 1..j : ev[i] = Event("source:fetch:start", ev[j].source)
                    /\ \A i \in 1..(j - 1) :
                           ev[i].source = ev[j].source =>
                               /\ ev[i].type \notin {"source:fetch:done",
                                                     "source:fetch:error"}
                               /\ ev[j].type # "source:fetch:start"

(***************************************************************************)
(* Source registry: lib/sources.ts (loadSources, saveSources,              *)
(* getMergedSources) and the /sources handlers of routes/route-sources.ts. *)
(* A source is an object; a persisted override may carry only some of the  *)
(* fields, and Absent marks a field the object does not have.              *)
(***************************************************************************)
MaxDefaults == 2
MaxPersisted == 2

Absent == "absent"
\* The file as the file system holds it; NoFile when it does not exist.
FileOf(list) == [exists |-> TRUE, list |-> list]
NoFile == [exists |-> FALSE, list |-> <<>>]
Null == [null |-> TRUE, list |-> <<>>]
SourceFields == {"name", "enabled", "endpoint"}

\* The built-in sources: complete objects, one per name.
DefaultEntries == [name : {"A", "B"}, enabled : {"true", "false"}, endpoint : {"d"}]
DefaultLists ==
    {d \in UNION {[1..n -> DefaultEntries] : n \in 0..MaxDefaults} :
        \A i, j \in DOMAIN d : d[i].name = d[j].name => i = j}

\* What data/sources.json can hold: any list of named objects.
PersistedEntries ==
    [name : {"A", "X"}, enabled : {"true", "false", Absent}, endpoint : {"p"}]
PersistedLists == UNION {[1..n -> PersistedEntries] : n \in 0..MaxPersisted}

\* A request body of POST /sources/update; the name may be missing.
Bodies ==
    [name : {"A", "X", Absent}, enabled : {"true", "false", Absent},
     endpoint : {Absent}]

NoSrcCall == [op |-> "none"]
SourcesInit == sourcesFile = NoFile /\ srcCall = NoSrcCall
SourcesFrame ==
    UNCHANGED <<jobVars, localVars, storeVars, fetchVars, anVars, aggVars, opVars,
                lateVars>>

\* loadSources: the parsed file; null when the file is missing or the read
\* or the parse fails.
loadSources(file, readOk) ==
    IF ~file.exists \/ ~readOk THEN Null ELSE [null |-> FALSE, list |-> file.list]

\* (await loadSources()) ?? []
OrEmpty(loaded) == IF loaded.null THEN <<>> ELSE loaded.list

\* sources.findIndex(s => s.name === name) + 1; 0 when there is none.
findIndex(list, name) ==
    IF \E i \in DOMAIN list : list[i].name = name
    THEN CHOOSE i \in DOMAIN list :
             /\ list[i].name = name
             /\ \A j \in 1..(i - 1) : list[j].name # name
    ELSE 0

SpreadMutDefaultWins(a, b) == a

\* { ...a, ...b }: every field b has replaces a's.
Spread(a, b) == [f \in SourceFields |-> IF b[f] # Absent THEN b[f] ELSE a[f]]

getMergedSourcesMutKeepsAll(defaults, persisted) ==
    [i \in DOMAIN defaults |->
        LET k == findIndex(persisted, defaults[i].name)
        IN  IF k # 0 THEN Spread(defaults[i], persisted[k]) ELSE defaults[i]]
    \o persisted

\* getMergedSources, on the list loadSources gave.
getMergedSources(defaults, persisted) ==
    LET merged == [i \in DOMAIN defaults |->
                      LET k == findIndex(persisted, defaults[i].name)
                      IN  IF k # 0 THEN Spread(defaults[i], persisted[k])
                          ELSE defaults[i]]
        IsExtra(s) == \A i \in DOMAIN defaults : defaults[i].name # s.name
    IN  merged \o SelectSeq(persisted, IsExtra)

\* data/sources.json as the deployment provides it.
ProvideFile(p) ==
    /\ srcCall = NoSrcCall
    /\ sourcesFile' = FileOf(p)
    /\ srcCall' = NoSrcCall
    /\ SourcesFrame

\* GET /sources of the persisting routes: getMergedSources over the defaults.
getSourcesHandler(defaults, readOk) ==
    LET persisted == OrEmpty(loadSources(sourcesFile, readOk))
    IN  /\ srcCall = NoSrcCall
        /\ srcCall' = [op |-> "get", app |-> "persisting", defaults |-> defaults, persisted |-> persisted,
                       result |-> getMergedSources(defaults, persisted)]
        /\ UNCHANGED sourcesFile
        /\ SourcesFrame

\* GET /sources of the routes that keep no overrides: the defaults.
getSourcesHandlerDefaults(defaults) ==
    /\ srcCall = NoSrcCall
    /\ srcCall' = [op |-> "get", app |-> "ack", defaults |-> defaults,
                   persisted |-> <<>>,
                   result |-> defaults]
    /\ UNCHANGED sourcesFile
    /\ SourcesFrame

\* POST /sources/update of the persisting routes.
updateSourceHandler(body, readOk, writeOk) ==
    LET sources == OrEmpty(loadSources(sourcesFile, readOk))
        index == findIndex(sources, body.name)
        saved == IF index # 0
                 THEN [sources EXCEPT ![index] = Spread(sources[index], body)]
                 ELSE Append(sources, body)
    IN  /\ srcCall = NoSrcCall
        /\ IF body.name = Absent
           THEN /\ srcCall' = [op |-> "update", app |-> "persisting", body |-> body,
                               before |-> sourcesFile, loaded |-> sources,
                               status |-> 400]
                /\ UNCHANGED sourcesFile
           ELSE IF ~writeOk
           THEN /\ srcCall' = [op |-> "update", app |-> "persisting", body |-> body,
                               before |-> sourcesFile, loaded |-> sources,
                               status |-> 500]
                /\ UNCHANGED sourcesFile
           ELSE /\ srcCall' = [op |-> "update", app |-> "persisting", body |-> body,
                               before |-> sourcesFile, loaded |-> sources,
                               status |-> 200]
                /\ sourcesFile' = FileOf(saved)
        /\ SourcesFrame

\* POST /sources/update of the routes that keep no overrides: acknowledged,
\* nothing written.
updateSourceHandlerAckOnly(body) ==
    /\ srcCall = NoSrcCall
    /\ srcCall' = [op |-> "update", app |-> "ack", body |-> body,
                   before |-> sourcesFile, loaded |-> <<>>,
                   status |-> IF body.name = Absent THEN 400 ELSE 200]
    /\ UNCHANGED sourcesFile
    /\ SourcesFrame

\* The response is sent; the next request is taken.
ResponseSent ==
    /\ srcCall # NoSrcCall
    /\ srcCall' = NoSrcCall
    /\ UNCHANGED sourcesFile
    /\ SourcesFrame

NextSources ==
    \/ ResponseSent
    \/ \E p \in PersistedLists : ProvideFile(p)
    \/ \E d \in DefaultLists, ok \in BOOLEAN : getSourcesHandler(d, ok)
    \/ \E d \in DefaultLists : getSourcesHandlerDefaults(d)
    \/ \E b \in Bodies, r, w \in BOOLEAN : updateSourceHandler(b, r, w)
    \/ \E b \in Bodies : updateSourceHandlerAckOnly(b)

\* The list a call of GET /sources answers with, from the file as it is.
SourcesServed(app, defaults) ==
    IF app = "ack" THEN defaults
    ELSE getMergedSources(defaults, OrEmpty(loadSources(sourcesFile, TRUE)))

IsDefaultName(defaults, name) == \E i \in DOMAIN defaults : defaults[i].name = name

\* C21: the merged list is, in order, one entry per default source (in default
\* order), equal to the default with the fields of the same-named persisted
\* override laid over it (a default without override is unchanged), followed
\* by the persisted sources whose name matches no default, in persisted order.
C21_MergeOverlaysThenAppends ==
    srcCall.op = "get" =>
        LET d == srcCall.defaults
            p == srcCall.persisted
            m == srcCall.result
        IN  /\ Len(m) >= Len(d)
            /\ \A i \in DOMAIN d :
                   IF \E k \in DOMAIN p : p[k].name = d[i].name
                   THEN \E k \in DOMAIN p :
                            /\ p[k].name = d[i].name
                            /\ \A f \in SourceFields :
                                   m[i][f] = IF p[k][f] # Absent THEN p[k][f]
                                             ELSE d[i][f]
                   ELSE m[i] = d[i]
            /\ SubSeq(m, Len(d) + 1, Len(m))
                   = SelectSeq(p, LAMBDA s : ~IsDefaultName(d, s.name))

C21_Witness ==
    /\ srcCall.op = "get"
    /\ \E i \in DOMAIN srcCall.defaults, k \in DOMAIN srcCall.persisted :
           /\ srcCall.persisted[k].name = srcCall.defaults[i].name
           /\ srcCall.persisted[k].enabled = Absent
           /\ srcCall.persisted[k].endpoint # srcCall.defaults[i].endpoint
           /\ srcCall.result[i].enabled = srcCall.defaults[i].enabled
           /\ srcCall.result[i].endpoint = srcCall.persisted[k].endpoint
    /\ \E j \in DOMAIN srcCall.defaults :
           \A k \in DOMAIN srcCall.persisted :
               srcCall.persisted[k].name # srcCall.defaults[j].name
    /\ Len(srcCall.result) > Len(srcCall.defaults)

\* C22: whatever the default list and the persisted list (several persisted
\* entries of one name included), no two sources of the merged list share a
\* name, and of the entries that conflict the last-written one wins: the
\* merged source of a name carries the fields of the last persisted entry of
\* that name.
C22_MergedNamesUnique ==
    srcCall.op = "get" =>
        LET p == srcCall.persisted
            m == srcCall.result
        IN  /\ \A i, j \in DOMAIN m : m[i].name = m[j].name => i = j
            /\ \A k \in DOMAIN p :
                   (\A l \in (k + 1)..Len(p) : p[l].name # p[k].name) =>
                       \E i \in DOMAIN m :
                           /\ m[i].name = p[k].name
                           /\ \A f \in SourceFields :
                                  p[k][f] # Absent => m[i][f] = p[k][f]

\* C23: merging is idempotent: merging the defaults with an already merged
\* list gives that merged list again, entry by entry and in the same order.
C23_MergeIdempotent ==
    srcCall.op = "get" =>
        getMergedSources(srcCall.defaults, srcCall.result) = srcCall.result

C23_Witness ==
    /\ srcCall.op = "get"
    /\ \E k, l \in DOMAIN srcCall.persisted :
           k # l /\ srcCall.persisted[k].name = srcCall.persisted[l].name
    /\ Len(srcCall.defaults) = MaxDefaults
    /\ srcCall.result # srcCall.defaults

\* C24: POST /sources/update with a name always re-persists the full override
\* list: an entry of that name becomes the old entry with the supplied fields
\* laid over it, otherwise the supplied source is appended; every other entry
\* is unchanged and keeps its position; and a following GET /sources returns
\* a source of that name carrying the supplied fields.
C24_UpdateUpsertsOverride ==
    (srcCall.op = "update" /\ srcCall.status = 200) =>
        LET old == OrEmpty(loadSources(srcCall.before, TRUE))
            body == srcCall.body
            k == findIndex(old, body.name)
            new == sourcesFile.list
        IN  /\ sourcesFile.exists
            /\ Len(new) = IF k # 0 THEN Len(old) ELSE Len(old) + 1
            /\ \A i \in DOMAIN old : i # k => new[i] = old[i]
            /\ LET n == IF k # 0 THEN k ELSE Len(old) + 1
               IN  \A f \in SourceFields :
                       new[n][f] = IF body[f] # Absent THEN body[f]
                                           ELSE IF k # 0 THEN old[k][f] ELSE Absent
            /\ \A d \in DefaultLists :
                   \E i \in DOMAIN SourcesServed(srcCall.app, d) :
                       /\ SourcesServed(srcCall.app, d)[i].name = body.name
                       /\ \A f \in SourceFields :
                              body[f] # Absent =>
                                  SourcesServed(srcCall.app, d)[i][f] = body[f]

\* The persisting handler, when loadSources gave the list the file holds:
\* the same statement.
C24_PersistingUpdateUpserts ==
    (/\ srcCall.op = "update"
     /\ srcCall.app = "persisting"
     /\ srcCall.loaded = srcCall.before.list) =>
        C24_UpdateUpsertsOverride
(***************************************************************************)
(* Article analysis without a job row (lib/ai analyzeArticle as the        *)
(* analyzed routes call it, lib/articles/analyze.ts analyzeFullArticle)    *)
(* and the writers of the analyzed store (routes/route-articles-analyzed). *)
(* Ids are numbers: NoId is a missing id, client and local ids are small,  *)
(* and the n-th crypto.randomUUID() of the process is UuidBase + n.        *)
(***************************************************************************)
MaxUuids == 4

NoId == 0
ClientIds == {1, 2}
UuidBase == 10
Uuid(n) == UuidBase + n
DocIds == ClientIds \cup {Uuid(n) : n \in 1..MaxUuids}

AiOutcomes == {"data", "nodata", "throw"}
Unset == "unset"
NoResults == [k \in {Steps[i] : i \in 1..NumSteps} |-> Unset]

\* The articles handed to the analysis: a local record, analyzed or not.
AnalysisInputs == [id : {1}, content : {"", "c"}, analyzed : BOOLEAN]
\* What the analyzed store holds of a record.
AnalyzedDocOf(id, originalId, analyzed) ==
    [id |-> id, originalId |-> originalId, analyzed |-> analyzed]
SaveBodies == [id : ClientIds \cup {NoId}, originalId : ClientIds \cup {NoId},
               analyzed : BOOLEAN]
NoRec == [id |-> NoId]
NoOut == [kind |-> "none"]
NullOut == [kind |-> "null"]

IdleAnalysis ==
    [pc |-> "idle", caller |-> "none", article |-> NoRec, step |-> 0,
     attempts |-> <<>>, failed |-> {}, results |-> NoResults, out |-> NoOut]

AnalyzeInit ==
    /\ analysis = IdleAnalysis
    /\ analyzedDocs = [i \in DocIds |-> NoRec]
    /\ uuidsDrawn = 0

AnalyzeFrame ==
    UNCHANGED <<jobVars, localVars, storeVars, fetchVars, sourceVars, aggVars, opVars,
                lateVars>>

\* The value a step without data is given: "" for antithesis and
\* philosophical, null for the others.
StepDefault(key) == IF key \in {"antithesis", "philosophical"} THEN "" ELSE "null"

\* The object analyzeArticle returns after the loop.
AnalyzedArticle(a, uuid) ==
    [kind |-> "article", id |-> uuid, originalId |-> a.article.id,
     analyzed |-> TRUE, results |-> a.results]

AfterStepMutAbortsOnFailure(a, o, uuid) ==
    LET key == Steps[a.step]
        r == [a EXCEPT !.results[key] = IF o = "data" THEN "data" ELSE StepDefault(key),
                       !.failed = IF o = "data" THEN @ ELSE @ \cup {key}]
    IN  IF a.step = NumSteps \/ o # "data"
        THEN [r EXCEPT !.pc = "returned", !.out = AnalyzedArticle(r, uuid)]
        ELSE [r EXCEPT !.step = @ + 1, !.attempts = Append(@, Steps[a.step + 1])]

\* One pass of the steps loop after callPythonAI settled: resp.data when there
\* is data, the step's default when resp.data is null (callPythonAI caught a
\* failure) or when reading resp throws and the catch block runs; then the
\* next step's call, or the return.
AfterStep(a, o, uuid) ==
    LET key == Steps[a.step]
        r == [a EXCEPT !.results[key] = IF o = "data" THEN "data" ELSE StepDefault(key),
                       !.failed = IF o = "data" THEN @ ELSE @ \cup {key}]
    IN  IF a.step = NumSteps
        THEN [r EXCEPT !.pc = "returned", !.out = AnalyzedArticle(r, uuid)]
        ELSE [r EXCEPT !.step = @ + 1, !.attempts = Append(@, Steps[a.step + 1])]

\* analyzeArticle(article) up to its first await: null on blank content.
AnalyzeBegins(caller, article) ==
    IF article.content = ""
    THEN [IdleAnalysis EXCEPT !.pc = "returned", !.caller = caller,
                              !.article = article, !.out = NullOut]
    ELSE [IdleAnalysis EXCEPT !.pc = "ai", !.caller = caller, !.article = article,
                              !.step = 1, !.attempts = <<Steps[1]>>]

\* A direct call of analyzeArticle.
CallAnalyzeArticle(article) ==
    /\ analysis.pc = "idle"
    /\ uuidsDrawn + 2 <= MaxUuids
    /\ analysis' = AnalyzeBegins("direct", article)
    /\ UNCHANGED <<analyzedDocs, uuidsDrawn>>
    /\ AnalyzeFrame

\* await callPythonAI(endpoint, {content}) settles.
AnalyzeStepReturns(o) ==
    /\ analysis.pc = "ai"
    /\ analysis' = AfterStep(analysis, o, Uuid(uuidsDrawn + 1))
    /\ uuidsDrawn' = IF analysis.step = NumSteps THEN uuidsDrawn + 1 ELSE uuidsDrawn
    /\ UNCHANGED analyzedDocs
    /\ AnalyzeFrame

\* analyzed store add(entry): no write when the id is already there or when
\* db.put rejects.
AnalyzedPut(docs, entry, putOk) ==
    IF docs[entry.id] # NoRec \/ ~putOk THEN docs
    ELSE [docs EXCEPT ![entry.id] = entry]

\* GET /articles/analyzed/full?id=key up to the analysis: 500 without Helia,
\* the stored record if there is one, 404 without a local article.
getFullAnalyzedArticleHandler(key, helia, local) ==
    /\ analysis.pc = "idle"
    /\ uuidsDrawn + 2 <= MaxUuids
    /\ analysis' = IF helia /\ analyzedDocs[key] = NoRec /\ local # NoRec
                   THEN AnalyzeBegins("lazy", local)
                   ELSE [IdleAnalysis EXCEPT !.pc = "returned", !.caller = "answered"]
    /\ UNCHANGED <<analyzedDocs, uuidsDrawn>>
    /\ AnalyzeFrame

\* The rest of the handler: the result (or the local article when the
\* analysis gave null) with a new id, originalId, analyzed: true, saved.
LazyAnalysisSaved(putOk) ==
    /\ analysis.pc = "returned" /\ analysis.caller = "lazy"
    /\ analyzedDocs' = AnalyzedPut(analyzedDocs,
                           AnalyzedDocOf(Uuid(uuidsDrawn + 1), analysis.article.id, TRUE),
                           putOk)
    /\ uuidsDrawn' = uuidsDrawn + 1
    /\ analysis' = IdleAnalysis
    /\ AnalyzeFrame

\* analyzeFullArticle(fullArticle): an analyzed article is returned as it
\* is, any other is analyzed.
analyzeFullArticle(fullArticle) ==
    /\ analysis.pc = "idle"
    /\ uuidsDrawn + 2 <= MaxUuids
    /\ analysis' = IF fullArticle.analyzed
                   THEN [IdleAnalysis EXCEPT !.pc = "returned", !.caller = "answered",
                                             !.article = fullArticle]
                   ELSE AnalyzeBegins("full", fullArticle)
    /\ UNCHANGED <<analyzedDocs, uuidsDrawn>>
    /\ AnalyzeFrame

\* Its return after the analysis: {...analyzed, id: randomUUID(), originalId,
\* url, title, analyzed: true}.
FullAnalysisReturned ==
    /\ analysis.pc = "returned" /\ analysis.caller = "full"
    /\ analysis' = [analysis EXCEPT !.caller = "answered",
                       !.out = [kind |-> "article", id |-> Uuid(uuidsDrawn + 1),
                                originalId |-> analysis.article.id, analyzed |-> TRUE,
                                results |-> analysis.results]]
    /\ uuidsDrawn' = uuidsDrawn + 1
    /\ UNCHANGED analyzedDocs
    /\ AnalyzeFrame

\* The caller has the result.
AnalysisDone ==
    /\ analysis.pc = "returned" /\ analysis.caller \in {"direct", "answered"}
    /\ analysis' = IdleAnalysis
    /\ UNCHANGED <<analyzedDocs, uuidsDrawn>>
    /\ AnalyzeFrame

\* POST /articles/analyzed/save: 400 without an id, else add(body).
saveAnalyzedArticleHandler(body, putOk) ==
    /\ analysis.pc = "idle"
    /\ analyzedDocs' = IF body.id = NoId THEN analyzedDocs
                       ELSE AnalyzedPut(analyzedDocs, body, putOk)
    /\ UNCHANGED <<analysis, uuidsDrawn>>
    /\ AnalyzeFrame

NextAnalyze ==
    \/ \E a \in AnalysisInputs : CallAnalyzeArticle(a)
    \/ \E o \in AiOutcomes : AnalyzeStepReturns(o)
    \/ \E k \in DocIds, h \in BOOLEAN, l \in AnalysisInputs \cup {NoRec} :
           getFullAnalyzedArticleHandler(k, h, l)
    \/ \E ok \in BOOLEAN : LazyAnalysisSaved(ok)
    \/ \E a \in AnalysisInputs : analyzeFullArticle(a)
    \/ FullAnalysisReturned
    \/ AnalysisDone
    \/ \E b \in SaveBodies, ok \in BOOLEAN : saveAnalyzedArticleHandler(b, ok)

\* C25: on non-empty content analyzeArticle attempts every analysis step
\* (political bias, sentiment, cognitive bias, antithesis, philosophical)
\* exactly once and in that order, whatever failed before; a failed step
\* yields its default value (null, or the empty string), and the function
\* still returns an analyzed article.
C25_EveryStepAttemptedOnce ==
    /\ \A i \in DOMAIN analysis.attempts : analysis.attempts[i] = Steps[i]
    /\ (analysis.pc = "returned" /\ analysis.article # NoRec
            /\ ~analysis.article.analyzed /\ analysis.article.content # "") =>
           /\ analysis.attempts = Steps
           /\ \A k \in analysis.failed :
                  analysis.results[k] = StepDefault(k) /\ analysis.results[k] \in {"null", ""}
           /\ \A k \in DOMAIN analysis.results : analysis.results[k] # Unset
           /\ analysis.out.kind = "article" /\ analysis.out.analyzed

C25_Witness ==
    /\ analysis.pc = "returned"
    /\ analysis.out.kind = "article"
    /\ analysis.failed = {"politicalBias", "antithesis"}
    /\ analysis.results["philosophical"] = "data"

\* C26: every record that is ever in the analyzed store has analyzed = true
\* and an id different from its originalId, whatever the sequence of writes
\* (lazy analysis of GET /articles/analyzed/full, POST /articles/analyzed/save).
C26_AnalyzedRecordsWellFormed ==
    \A i \in DocIds :
        analyzedDocs[i] # NoRec =>
            analyzedDocs[i].analyzed /\ analyzedDocs[i].id # analyzedDocs[i].originalId

\* The records written by the lazy analysis alone are of that form.
C26_LazyRecordsWellFormed ==
    \A n \in 1..MaxUuids :
        analyzedDocs[Uuid(n)] # NoRec =>
            /\ analyzedDocs[Uuid(n)].analyzed
            /\ analyzedDocs[Uuid(n)].id # analyzedDocs[Uuid(n)].originalId
(***************************************************************************)
(* lib/articles/aggregate.ts: aggregateArticlesFromSources.  A link is     *)
(* named by the endpoint that listed it and its position in that list.     *)
(***************************************************************************)
MaxEndpoints == 2
MaxLinks == 2

\* fetchArticleLinksFromSource: smartFetch rejects, the response is not ok,
\* the body is no array (allLinks.push(...links) throws), or n links.
EndpointOutcomes ==
    [kind : {"network", "http", "notarray"}, n : {0}]
        \cup [kind : {"links"}, n : 0..MaxLinks]
\* loadFullArticle: an article, a rejection, or no answer within timeoutMs.
LoadOutcomes == {"article", "reject", "timeout"}

LinksOf(ep, o) ==
    IF o.kind = "links" THEN [k \in 1..o.n |-> [ep |-> ep, k |-> k]] ELSE <<>>

IdleAggregate ==
    [pc |-> "idle", endpoints |-> 0, ep |-> 0, fetched |-> <<>>, listed |-> <<>>,
     allLinks |-> <<>>, li |-> 0, loaded |-> <<>>, results |-> <<>>, threw |-> FALSE]

AggregateInit == agg = IdleAggregate

AggregateFrame ==
    UNCHANGED <<jobVars, localVars, storeVars, fetchVars, sourceVars, anVars, opVars,
                lateVars>>

\* withTimeout(promise, ms): the promise's value, or a rejection when the
\* promise rejects or the timer fires first.
withTimeout(o) == IF o \in {"reject", "timeout"} THEN "rejected" ELSE o

\* resolveSingleArticle: the loaded value, null when withTimeout rejects.
resolveSingleArticle(o) == IF withTimeout(o) = "rejected" THEN "null" ELSE withTimeout(o)

\* Step 2 from link number li on: the next await, or the return.
ResolveFrom(a, li) ==
    IF li > Len(a.allLinks) THEN [a EXCEPT !.pc = "returned", !.li = li]
    ELSE [a EXCEPT !.pc = "resolve", !.li = li]

\* Step 1 from endpoint number ep on: the next await, or step 2.
LinksFrom(a, ep) ==
    IF ep > a.endpoints THEN ResolveFrom([a EXCEPT !.ep = ep], 1)
    ELSE [a EXCEPT !.pc = "links", !.ep = ep]

AfterEndpointMutStopsOnFailure(a, o) ==
    LET b == [a EXCEPT !.fetched = Append(@, o.kind),
                       !.listed = Append(@, LinksOf(a.ep, o)),
                       !.allLinks = @ \o LinksOf(a.ep, o)]
    IN  IF o.kind = "links" THEN LinksFrom(b, a.ep + 1)
        ELSE ResolveFrom(b, 1)

\* The body of the endpoints loop after the await: the links are pushed, or
\* the failure is logged; then the next endpoint.
AfterEndpoint(a, o) ==
    LinksFrom([a EXCEPT !.fetched = Append(@, o.kind),
                        !.listed = Append(@, LinksOf(a.ep, o)),
                        !.allLinks = @ \o LinksOf(a.ep, o)],
              a.ep + 1)

AfterResolveMutThrowsOnFailure(a, o) ==
    IF withTimeout(o) = "rejected"
    THEN [a EXCEPT !.pc = "returned", !.threw = TRUE,
                   !.loaded = Append(@, o)]
    ELSE ResolveFrom([a EXCEPT !.loaded = Append(@, o),
                               !.results = IF resolveSingleArticle(o) # "null"
                                           THEN Append(@, a.allLinks[a.li]) ELSE @],
                     a.li + 1)

\* The body of the links loop after the await: a resolved article is pushed.
AfterResolve(a, o) ==
    ResolveFrom([a EXCEPT !.loaded = Append(@, o),
                          !.results = IF resolveSingleArticle(o) # "null"
                                      THEN Append(@, a.allLinks[a.li]) ELSE @],
                a.li + 1)

aggregateArticlesFromSources(n) ==
    /\ agg.pc = "idle"
    /\ agg' = LinksFrom([IdleAggregate EXCEPT !.endpoints = n], 1)
    /\ AggregateFrame

\* await fetchArticleLinksFromSource(endpoint) settles.
EndpointReturns(o) ==
    /\ agg.pc = "links"
    /\ agg' = AfterEndpoint(agg, o)
    /\ AggregateFrame

\* await resolveSingleArticle(link, opts) settles.
ResolveReturns(o) ==
    /\ agg.pc = "resolve"
    /\ agg' = AfterResolve(agg, o)
    /\ AggregateFrame

\* The caller has the result.
AggregateDone ==
    /\ agg.pc = "returned"
    /\ agg' = IdleAggregate
    /\ AggregateFrame

NextAggregate ==
    \/ \E n \in 0..MaxEndpoints : aggregateArticlesFromSources(n)
    \/ \E o \in EndpointOutcomes : EndpointReturns(o)
    \/ \E o \in LoadOutcomes : ResolveReturns(o)
    \/ AggregateDone

RECURSIVE Concat(_)
Concat(lists) == IF lists = <<>> THEN <<>> ELSE Head(lists) \o Concat(Tail(lists))

\* The links whose load gave an article, in link order.
RECURSIVE LoadedLinks(_, _)
LoadedLinks(links, loaded) ==
    IF links = <<>> THEN <<>>
    ELSE (IF Head(loaded) = "article" THEN <<Head(links)>> ELSE <<>>)
             \o LoadedLinks(Tail(links), Tail(loaded))

\* C27: a timeout or a resolution failure of one article drops only that
\* article: the call does not throw, every link is resolved, and the result
\* is exactly the successfully resolved articles, in link order.
C27_FailedArticleDroppedAlone ==
    /\ ~agg.threw
    /\ agg.pc = "returned" =>
           /\ Len(agg.loaded) = Len(agg.allLinks)
           /\ agg.results = LoadedLinks(agg.allLinks, agg.loaded)

C27_Witness ==
    /\ agg.pc = "returned"
    /\ Len(agg.allLinks) >= 3
    /\ agg.loaded[1] = "timeout"
    /\ agg.loaded[2] = "article"
    /\ agg.loaded[3] = "reject"
    /\ Len(agg.results) = 1

\* C28: provider endpoints are isolated: an endpoint whose metadata fetch
\* fails contributes no links and does not keep the links of the other
\* endpoints from being collected, concatenated in endpoint order, and
\* resolved.
C28_EndpointsIsolated ==
    /\ Len(agg.listed) <= agg.endpoints
    /\ agg.pc \in {"resolve", "returned"} =>
           /\ Len(agg.listed) = agg.endpoints
           /\ \A e \in DOMAIN agg.listed :
                  agg.fetched[e] # "links" => agg.listed[e] = <<>>
           /\ agg.allLinks = Concat(agg.listed)
           /\ \A i \in DOMAIN agg.allLinks : agg.allLinks[i].ep \in 1..agg.endpoints
    /\ agg.pc = "returned" => Len(agg.loaded) = Len(agg.allLinks)

C28_Witness ==
    /\ agg.pc = "returned"
    /\ agg.endpoints = 2
    /\ agg.fetched[1] = "http"
    /\ Len(agg.listed[2]) = MaxLinks
    /\ Len(agg.results) = MaxLinks
(***************************************************************************)
(* Store handles and their readiness: setup / getInstance of the local and *)
(* analyzed stores, the operations that begin with getInstance (add,       *)
(* deleteByUrl, deleteById), and the background tasks of POST              *)
(* /articles/local/fetch and POST /articles/local/fetch/:sourceName.       *)
(* A store is an OrbitDB Documents database: db.del(key) rejects with      *)
(* "No document with key ..." when the key has no document.                *)
(***************************************************************************)
MaxFetched == 2

DbNames == {"local", "analyzed"}
Keys == {"k1", "k2"}
Vals == {"v1", "v2"}
NoVal == "none"
FetchedBatches == UNION {[1..n -> Keys] : n \in 0..MaxFetched}

NoOp == [op |-> "none"]
IdleBg ==
    [kind |-> "none", pc |-> "idle", addUnique |-> "none", job |-> "none",
     storeFailed |-> FALSE, escaped |-> FALSE]

StoreOpsInit ==
    /\ dbReady = [s \in DbNames |-> FALSE]
    /\ dbDocs = [s \in DbNames |-> [k \in Keys |-> NoVal]]
    /\ opCall = NoOp
    /\ bgTask = IdleBg

StoreOpsFrame ==
    UNCHANGED <<jobVars, localVars, storeVars, fetchVars, sourceVars, anVars, aggVars,
                lateVars>>

Quiet == opCall = NoOp /\ bgTask = IdleBg

\* getInstance(): the handle, or the throw of "<store> not initialized".
getInstance(s) == IF dbReady[s] THEN "db" ELSE "not initialized"

OpResult(op, s, key, error, message) ==
    [op |-> op, store |-> s, key |-> key, notReady |-> ~dbReady[s],
     error |-> error, message |-> message, before |-> dbDocs]

\* db.del(key) of a Documents database: the documents left and whether the
\* call rejected (no document of that key, or the write failed).
DbDel(docs, key, writeOk) ==
    IF docs[key] = NoVal THEN [docs |-> docs, rejected |-> TRUE, why |-> "No document with key"]
    ELSE IF ~writeOk THEN [docs |-> docs, rejected |-> TRUE, why |-> "write failed"]
    ELSE [docs |-> [docs EXCEPT ![key] = NoVal], rejected |-> FALSE, why |-> ""]

\* setup() of a store: the module variable is set.
setup(s) ==
    /\ Quiet
    /\ ~dbReady[s]
    /\ dbReady' = [dbReady EXCEPT ![s] = TRUE]
    /\ UNCHANGED <<dbDocs, opCall, bgTask>>
    /\ StoreOpsFrame

\* add(doc) with overwrite, Helia running: getInstance, then db.put.
StoreAdd(s, key, val) ==
    /\ Quiet
    /\ IF getInstance(s) # "db"
       THEN /\ opCall' = OpResult("add", s, key, TRUE, "not initialized")
            /\ UNCHANGED dbDocs
       ELSE /\ opCall' = OpResult("add", s, key, FALSE, "")
            /\ dbDocs' = [dbDocs EXCEPT ![s][key] = val]
    /\ UNCHANGED <<dbReady, bgTask>>
    /\ StoreOpsFrame

\* deleteByUrl of the local store, both versions: any failure of getInstance
\* or db.del reaches the caller (rethrown as "Failed to delete article: ...",
\* or as it is).
deleteByUrl(key, writeOk) ==
    LET d == DbDel(dbDocs["local"], key, writeOk)
    IN  /\ Quiet
        /\ IF getInstance("local") # "db"
           THEN /\ opCall' = OpResult("deleteByUrl", "local", key, TRUE, "not initialized")
                /\ UNCHANGED dbDocs
           ELSE /\ opCall' = OpResult("deleteByUrl", "local", key, d.rejected, d.why)
                /\ dbDocs' = [dbDocs EXCEPT !["local"] = d.docs]
        /\ UNCHANGED <<dbReady, bgTask>>
        /\ StoreOpsFrame

\* deleteById of the analyzed store: getInstance outside the try, a rejected
\* db.del is logged and not rethrown.
deleteById(key, writeOk) ==
    LET d == DbDel(dbDocs["analyzed"], key, writeOk)
    IN  /\ Quiet
        /\ IF getInstance("analyzed") # "db"
           THEN /\ opCall' = OpResult("deleteById", "analyzed", key, TRUE, "not initialized")
                /\ UNCHANGED dbDocs
           ELSE /\ opCall' = OpResult("deleteById", "analyzed", key, FALSE, "")
                /\ dbDocs' = [dbDocs EXCEPT !["analyzed"] = d.docs]
        /\ UNCHANGED <<dbReady, bgTask>>
        /\ StoreOpsFrame

\* The caller has the operation's result.
OpDone ==
    /\ opCall # NoOp
    /\ opCall' = NoOp
    /\ UNCHANGED <<dbReady, dbDocs, bgTask>>
    /\ StoreOpsFrame

\* add(article, false) for each article of the batch, as addUnique runs it:
\* the documents left, and whether an add threw.
RECURSIVE AddEach(_, _, _)
AddEach(ready, docs, batch) ==
    IF batch = <<>> THEN [docs |-> docs, threw |-> FALSE]
    ELSE IF ~ready THEN [docs |-> docs, threw |-> TRUE]
    ELSE AddEach(ready,
                 IF docs[Head(batch)] = NoVal THEN [docs EXCEPT ![Head(batch)] = "v1"]
                 ELSE docs,
                 Tail(batch))

\* addUnique: the version with try/catch around each add goes on after a
\* throw and returns its count; the version without lets the throw out.
addUnique(version, ready, docs, batch) ==
    [docs |-> AddEach(ready, docs, batch).docs,
     threw |-> version = "rethrows" /\ AddEach(ready, docs, batch).threw,
     failed |-> AddEach(ready, docs, batch).threw]

\* POST /articles/local/fetch: the task is started, the response sent.
fetchLocalArticlesHandler(version) ==
    /\ Quiet
    /\ bgTask' = [IdleBg EXCEPT !.kind = "bulk", !.pc = "fetch", !.addUnique = version]
    /\ UNCHANGED <<dbReady, dbDocs, opCall>>
    /\ StoreOpsFrame

\* POST /articles/local/fetch/:sourceName: the job is queued, the task is
\* started and sets it running, the response is sent.
fetchSingleLocalSourceTask(version) ==
    /\ Quiet
    /\ bgTask' = [IdleBg EXCEPT !.kind = "single", !.pc = "fetch",
                                !.addUnique = version, !.job = "running"]
    /\ UNCHANGED <<dbReady, dbDocs, opCall>>
    /\ StoreOpsFrame

\* The task after its fetch: a rejected fetch goes to the catch block; else
\* the articles are given to addUnique (the single-source task skips an
\* empty list); the task's catch block takes whatever was thrown, and
\* what it calls itself (log, addDebugLog, setJobStatus) does not throw.
BgFetchReturns(fetchOk, batch) ==
    LET stores == fetchOk /\ (bgTask.kind = "bulk" \/ batch # <<>>)
        r == addUnique(bgTask.addUnique, dbReady["local"], dbDocs["local"], batch)
        caught == ~fetchOk \/ (stores /\ r.threw)
    IN  /\ bgTask.pc = "fetch"
        /\ dbDocs' = IF stores THEN [dbDocs EXCEPT !["local"] = r.docs] ELSE dbDocs
        /\ bgTask' = [bgTask EXCEPT
                         !.pc = "finished",
                         !.storeFailed = stores /\ r.failed,
                         !.escaped = FALSE,
                         !.job = IF bgTask.kind # "single" THEN "none"
                                 ELSE IF caught THEN "error" ELSE "done"]
        /\ UNCHANGED <<dbReady, opCall>>
        /\ StoreOpsFrame

\* The task's promise has settled.
BgDone ==
    /\ bgTask.pc = "finished"
    /\ bgTask' = IdleBg
    /\ UNCHANGED <<dbReady, dbDocs, opCall>>
    /\ StoreOpsFrame

NextStoreOps ==
    \/ \E s \in DbNames : setup(s)
    \/ \E s \in DbNames, k \in Keys, v \in Vals : StoreAdd(s, k, v)
    \/ \E k \in Keys, ok \in BOOLEAN : deleteByUrl(k, ok)
    \/ \E k \in Keys, ok \in BOOLEAN : deleteById(k, ok)
    \/ OpDone
    \/ \E v \in {"catches", "rethrows"} : fetchLocalArticlesHandler(v)
    \/ \E v \in {"catches", "rethrows"} : fetchSingleLocalSourceTask(v)
    \/ \E ok \in BOOLEAN, b \in FetchedBatches : BgFetchReturns(ok, b)
    \/ BgDone

\* C29: a store operation invoked while its store is not initialised fails
\* with a 'not initialized' error and changes no state; inside a background
\* fetch task the error is caught in the task and never escapes, and a
\* tracked job whose store operation failed so ends in status error.
C29_NotReadyFailsOneOperation ==
    /\ (opCall # NoOp /\ opCall.notReady) =>
           /\ opCall.error /\ opCall.message = "not initialized"
           /\ dbDocs = opCall.before
    /\ ~bgTask.escaped
    /\ (bgTask.pc = "finished" /\ bgTask.storeFailed) =>
           (bgTask.kind = "single" => bgTask.job = "error")

\* The same with the addUnique that has no try/catch of its own.
C29_RethrowingTaskEndsInError ==
    (bgTask # IdleBg /\ bgTask.addUnique = "rethrows") => C29_NotReadyFailsOneOperation

\* C30: deleteByUrl and deleteById are idempotent: deleting a key that has no
\* record is not an error and changes nothing, a second deletion of a key
\* leaves the store as the first one did, and no other record is touched.
C30_DeleteIdempotent ==
    (/\ opCall # NoOp
     /\ opCall.op \in {"deleteByUrl", "deleteById"}
     /\ ~opCall.notReady) =>
        /\ \A s \in DbNames : \A k \in Keys :
               (s # opCall.store \/ k # opCall.key) => dbDocs[s][k] = opCall.before[s][k]
        /\ opCall.before[opCall.store][opCall.key] = NoVal =>
               ~opCall.error /\ dbDocs = opCall.before

\* deleteById alone is idempotent in that sense.
C30_DeleteByIdIdempotent ==
    (opCall # NoOp /\ opCall.op = "deleteById") => C30_DeleteIdempotent

(***************************************************************************)
(* Debug log store (p2p/orbitdb/stores/debug): a Documents database whose  *)
(* documents are indexed by the entry's timestamp.  Its writers are        *)
(* addDebugLog (lib/log.ts) and POST /debug/log (routes/route-log.ts).     *)
(***************************************************************************)
MaxLogs == 3

\* ISO strings of new Date().toISOString(): millisecond resolution, so two
\* entries made within one millisecond carry the same string
Timestamps == {"t1", "t2", "t3"}

NoLog == 0

LogIds == 1..MaxLogs

NoTimestamp == "none"

EmptyDebugDocs == [t \in Timestamps |-> NoLog]

NoLogCall ==
    [op |-> "none", id |-> NoLog, timestamp |-> NoTimestamp,
     before |-> EmptyDebugDocs, result |-> "none", status |-> 0]

DebugInit ==
    /\ debugDBInstance = FALSE
    /\ debugDocs = EmptyDebugDocs
    /\ logsMade = 0
    /\ logCall = NoLogCall

DebugFrame == UNCHANGED <<baseVars, initVars, thrVars, updVars, toVars>>

\* the documents the database's all() yields
StoredLogs(docs) == {t \in Timestamps : docs[t] # NoLog}

\* db.put(doc) of a Documents database with indexBy "timestamp": the document
\* is stored under doc.timestamp, in the place of the one stored there before
DocumentsPut(docs, entry) == [docs EXCEPT ![entry.timestamp] = entry.id]

DocumentsPutMutKeepsFirst(docs, entry) ==
    IF docs[entry.timestamp] = NoLog
    THEN [docs EXCEPT ![entry.timestamp] = entry.id]
    ELSE docs

\* stores/debug/add.ts add(entry): getInstance() throws while the store is not
\* set up; a rejected put is caught and logged
debugAdd(instance, docs, entry, putOk) ==
    IF ~instance THEN [docs |-> docs, result |-> "throw"]
    ELSE IF putOk THEN [docs |-> DocumentsPut(docs, entry), result |-> "ok"]
    ELSE [docs |-> docs, result |-> "logged"]

debugSetup ==
    /\ logCall = NoLogCall
    /\ ~debugDBInstance
    /\ debugDBInstance' = TRUE
    /\ UNCHANGED <<debugDocs, logsMade, logCall>>
    /\ DebugFrame

LogEntry(ts) == [id |-> logsMade + 1, timestamp |-> ts]

\* lib/log.ts addDebugLog with save: the entry gets a new _id and the current
\* time; it is saved only if the running instance has a debug store, and
\* whatever the save throws is dropped
addDebugLog(ts, putOk) ==
    /\ logCall = NoLogCall
    /\ logsMade < MaxLogs
    /\ LET entry == LogEntry(ts)
           r == IF debugDBInstance
                THEN debugAdd(debugDBInstance, debugDocs, entry, putOk)
                ELSE [docs |-> debugDocs, result |-> "skipped"]
       IN /\ debugDocs' = r.docs
          /\ logCall' = [op |-> "addDebugLog", id |-> entry.id,
                         timestamp |-> ts, before |-> debugDocs,
                         result |-> r.result, status |-> 0]
    /\ logsMade' = logsMade + 1
    /\ UNCHANGED debugDBInstance
    /\ DebugFrame

\* POST /debug/log: 500 while the store is not set up; the entry takes the
\* body's timestamp, or the current time when the body has none
postDebugLog(bodyTs, ts, putOk) ==
    /\ logCall = NoLogCall
    /\ logsMade < MaxLogs
    /\ IF ~debugDBInstance
       THEN /\ logCall' = [NoLogCall EXCEPT !.op = "post", !.result = "throw",
                                            !.status = 500]
            /\ UNCHANGED <<debugDocs, logsMade>>
       ELSE LET entry == LogEntry(IF bodyTs # NoTimestamp THEN bodyTs ELSE ts)
                r == debugAdd(debugDBInstance, debugDocs, entry, putOk)
            IN /\ debugDocs' = r.docs
               /\ logCall' = [op |-> "post", id |-> entry.id,
                              timestamp |-> entry.timestamp,
                              before |-> debugDocs, result |-> r.result,
                              status |-> 201]
               /\ logsMade' = logsMade + 1
    /\ UNCHANGED debugDBInstance
    /\ DebugFrame

LogDone ==
    /\ logCall # NoLogCall
    /\ logCall' = NoLogCall
    /\ UNCHANGED <<debugDBInstance, debugDocs, logsMade>>
    /\ DebugFrame

NextDebugLog ==
    \/ debugSetup
    \/ \E ts \in Timestamps, putOk \in BOOLEAN : addDebugLog(ts, putOk)
    \/ \E bodyTs \in Timestamps \cup {NoTimestamp}, ts \in Timestamps,
          putOk \in BOOLEAN : postDebugLog(bodyTs, ts, putOk)
    \/ LogDone

\* C31: the debug log is append-only: every successful add of an entry, by
\* addDebugLog or by POST /debug/log, leaves one stored entry more than
\* before, and every entry stored before is still stored, also when the new
\* entry carries the timestamp of a stored one.
C31_DebugLogAppendOnly ==
    logCall.result = "ok" =>
        /\ Cardinality(StoredLogs(debugDocs))
             = Cardinality(StoredLogs(logCall.before)) + 1
        /\ \A t \in Timestamps :
              logCall.before[t] # NoLog => debugDocs[t] = logCall.before[t]

\* the part of C31 that holds: an add of an entry whose timestamp no stored
\* entry carries appends it and leaves the others as they were
C31_FreshTimestampAppends ==
    (logCall.result = "ok" /\ logCall.before[logCall.timestamp] = NoLog) =>
        /\ Cardinality(StoredLogs(debugDocs))
             = Cardinality(StoredLogs(logCall.before)) + 1
        /\ \A t \in Timestamps :
              logCall.before[t] # NoLog => debugDocs[t] = logCall.before[t]

(***************************************************************************)
(* Singleton initialisers: the local store's setup, initHelia, getLibp2p   *)
(* and initOrbitDBCore.  Each tests its module variable, awaits the open   *)
(* or create, and assigns the variable when the await resumes.             *)
(***************************************************************************)
MaxCallers == 2

Callers == 1..MaxCallers

Singletons == {"articleLocalDB", "heliaInstance", "libp2pInstance",
               "coreInstance"}

SimpleInits == {"setup", "getLibp2p", "initOrbitDBCore"}

\* the module variable an initialiser guards
SingletonOf(fn) ==
    CASE fn = "setup" -> "articleLocalDB"
      [] fn = "initHelia" -> "heliaInstance"
      [] fn = "getLibp2p" -> "libp2pInstance"
      [] fn = "initOrbitDBCore" -> "coreInstance"

NoInstance == 0

IdleCaller == [fn |-> "none", pc |-> "idle", mine |-> NoInstance,
               result |-> NoInstance]

SingletonInit ==
    /\ singleton = [k \in Singletons |-> NoInstance]
    /\ opens = [k \in Singletons |-> 0]
    /\ handed = [k \in Singletons |-> {}]
    /\ overlapped = FALSE
    /\ initCall = [c \in Callers |-> IdleCaller]

SingletonFrame == UNCHANGED <<baseVars, dbgVars, thrVars, updVars, toVars>>

\* another call is between its test of the module variable and its return
Overlaps(c) == \E d \in Callers \ {c} : initCall[d].pc \notin {"idle", "done"}

\* caller c starts the open or create of singleton k: the instance it will
\* get is the opens[k] + 1 st one made
StartOpen(c, fn, k, pc) ==
    /\ opens' = [opens EXCEPT ![k] = @ + 1]
    /\ overlapped' = (overlapped \/ Overlaps(c))
    /\ initCall' = [initCall EXCEPT ![c] =
                       [fn |-> fn, pc |-> pc, mine |-> opens[k] + 1,
                        result |-> NoInstance]]

\* if (instance) return instance
ReturnExisting(c, fn) ==
    /\ initCall' = [initCall EXCEPT ![c] =
                       [fn |-> fn, pc |-> "done", mine |-> NoInstance,
                        result |-> singleton[SingletonOf(fn)]]]
    /\ UNCHANGED <<opens, overlapped>>

\* setup, getLibp2p, initOrbitDBCore up to their await
InitBegins(c, fn) ==
    /\ initCall[c].pc = "idle"
    /\ IF singleton[SingletonOf(fn)] # NoInstance
       THEN ReturnExisting(c, fn)
       ELSE StartOpen(c, fn, SingletonOf(fn), "open")
    /\ UNCHANGED <<singleton, handed>>
    /\ SingletonFrame

\* initHelia up to its first await that does not resume at once:
\* getLibp2p's createLibp2pNode, or createHelia when libp2p exists
initHeliaBegins(c) ==
    /\ initCall[c].pc = "idle"
    /\ IF singleton["heliaInstance"] # NoInstance
       THEN ReturnExisting(c, "initHelia")
       ELSE IF singleton["libp2pInstance"] # NoInstance
       THEN StartOpen(c, "initHelia", "heliaInstance", "open")
       ELSE StartOpen(c, "initHelia", "libp2pInstance", "libp2p")
    /\ UNCHANGED <<singleton, handed>>
    /\ SingletonFrame

\* await getLibp2p(...) inside initHelia resumes: libp2pInstance is assigned
\* and createHelia is called
Libp2pReturns(c) ==
    /\ initCall[c].pc = "libp2p"
    /\ singleton' = [singleton EXCEPT !["libp2pInstance"] = initCall[c].mine]
    /\ StartOpen(c, "initHelia", "heliaInstance", "open")
    /\ UNCHANGED handed
    /\ SingletonFrame

\* the awaited open or create resumes: the module variable is assigned;
\* initHelia goes on to await start(), the others return their variable
OpenReturns(c) ==
    /\ initCall[c].pc = "open"
    /\ LET k == SingletonOf(initCall[c].fn)
       IN /\ singleton' = [singleton EXCEPT ![k] = initCall[c].mine]
          /\ initCall' = [initCall EXCEPT ![c] =
                IF @.fn = "initHelia"
                THEN [@ EXCEPT !.pc = "start"]
                ELSE [@ EXCEPT !.pc = "done", !.result = initCall[c].mine]]
    /\ UNCHANGED <<opens, overlapped, handed>>
    /\ SingletonFrame

\* await heliaInstance.start() resumes: return heliaInstance
StartReturns(c) ==
    /\ initCall[c].pc = "start"
    /\ initCall' = [initCall EXCEPT ![c] =
                       [@ EXCEPT !.pc = "done",
                                 !.result = singleton["heliaInstance"]]]
    /\ UNCHANGED <<singleton, opens, overlapped, handed>>
    /\ SingletonFrame

\* the caller has its instance
CallerReceives(c) ==
    /\ initCall[c].pc = "done"
    /\ handed' = [handed EXCEPT ![SingletonOf(initCall[c].fn)] =
                     @ \cup {initCall[c].result}]
    /\ initCall' = [initCall EXCEPT ![c] = IdleCaller]
    /\ UNCHANGED <<singleton, opens, overlapped>>
    /\ SingletonFrame

NextSingleton ==
    \E c \in Callers :
        \/ \E fn \in SimpleInits : InitBegins(c, fn)
        \/ initHeliaBegins(c)
        \/ Libp2pReturns(c)
        \/ OpenReturns(c)
        \/ StartReturns(c)
        \/ CallerReceives(c)

\* C32: each singleton initialiser initialises only once: over any sequence
\* of calls, overlapping ones included, the open or create of a singleton is
\* performed at most once and every caller receives the same instance.
C32_InitialisedOnce ==
    \A k \in Singletons :
        /\ opens[k] <= 1
        /\ Cardinality(handed[k]) <= 1

\* the part of C32 that holds: while no call has started an open or create
\* during another call, each open is performed at most once and every caller
\* receives the same instance
C32_SequentialCallsInitialiseOnce ==
    ~overlapped =>
        \A k \in Singletons :
            /\ opens[k] <= 1
            /\ Cardinality(handed[k]) <= 1

(***************************************************************************)
(* throttleMiddleware (routes/route-articles.ts and its copies): a count   *)
(* and the time of the last request for every client IP.  Times are kept   *)
(* relative to Date.now(): the middleware only reads now - lastRequest.    *)
(***************************************************************************)
THROTTLE_LIMIT == 15

TIME_WINDOW == 5000

MaxCount == 17

ClientIPs == {"a", "b"}

\* client b sends few requests between two pauses
MaxOtherCount == 2

Burst(ip) == IF ip = "a" THEN MaxCount ELSE MaxOtherCount

\* time between one request and the next, in milliseconds
Gaps == {0, TIME_WINDOW, TIME_WINDOW + 1}

\* ages of the requests of the last TIME_WINDOW milliseconds
Ages == {0, TIME_WINDOW}

Expired == TIME_WINDOW + 1

NoTraffic == [a \in Ages |-> [sent |-> 0, passed |-> 0]]

NoRequest == [ip |-> "none", status |-> 0, sentBefore |-> 0, gap |-> 0]

ThrottleInit ==
    /\ throttleMap = [ip \in ClientIPs |-> [count |-> 0, elapsed |-> 0]]
    /\ recent = [ip \in ClientIPs |-> NoTraffic]
    /\ lastRequest = NoRequest

ThrottleFrame == UNCHANGED <<baseVars, dbgVars, initVars, updVars, toVars>>

Later(e, gap) == IF e + gap > TIME_WINDOW THEN Expired ELSE e + gap

\* the traffic record after gap milliseconds: every request is gap older and
\* those older than TIME_WINDOW are forgotten
Aged(tr, gap) ==
    [a \in Ages |-> IF a - gap \in Ages THEN tr[a - gap]
                    ELSE [sent |-> 0, passed |-> 0]]

SumOver(tr, field) ==
    tr[0][field] + tr[TIME_WINDOW][field]

\* lines 33-38: the count after this request
Count(throttle, elapsed) ==
    IF elapsed > TIME_WINDOW THEN 1 ELSE throttle.count + 1

\* line 40
RejectedMutOffByOne(count) == count > THROTTLE_LIMIT + 1

Rejected(count) == count > THROTTLE_LIMIT

\* throttleMiddleware for a request of client ip that arrives gap
\* milliseconds after the previous request of any client
throttleMiddleware(ip, gap) ==
    /\ throttleMap[ip].count < Burst(ip)
    /\ LET elapsed == Later(throttleMap[ip].elapsed, gap)
           count == Count(throttleMap[ip], elapsed)
           status == IF Rejected(count) THEN 429 ELSE 200
           aged == [i \in ClientIPs |-> Aged(recent[i], gap)]
       IN /\ throttleMap' =
                [i \in ClientIPs |->
                    IF i = ip THEN [count |-> count, elapsed |-> 0]
                    ELSE [throttleMap[i] EXCEPT
                             !.elapsed = Later(@, gap)]]
          /\ recent' = [aged EXCEPT ![ip][0] =
                [sent |-> @.sent + 1,
                 passed |-> @.passed + IF status = 200 THEN 1 ELSE 0]]
          /\ lastRequest' = [ip |-> ip, status |-> status,
                             sentBefore |-> SumOver(aged[ip], "sent"),
                             gap |-> gap]
    /\ ThrottleFrame

NextThrottle ==
    \E ip \in ClientIPs, gap \in Gaps : throttleMiddleware(ip, gap)

\* C33: for every client IP at most THROTTLE_LIMIT requests are let through
\* within any TIME_WINDOW milliseconds, and a request that is the 16th or a
\* later one of its client inside such a window is answered 429.
C33_AtMostLimitPerWindow ==
    /\ \A ip \in ClientIPs : SumOver(recent[ip], "passed") <= THROTTLE_LIMIT
    /\ (lastRequest.ip # "none" /\ lastRequest.sentBefore >= THROTTLE_LIMIT)
          => lastRequest.status = 429

C33_Witness ==
    /\ lastRequest.status = 429
    /\ lastRequest.sentBefore = THROTTLE_LIMIT
    /\ SumOver(recent[lastRequest.ip], "passed") = THROTTLE_LIMIT

\* C34: a request is answered 429 only if, counted with it, its client has
\* sent more than THROTTLE_LIMIT requests in the TIME_WINDOW milliseconds up
\* to it; a client that stays below the limit is never rejected.
C34_RejectsOnlyOverLimit ==
    lastRequest.status = 429 => lastRequest.sentBefore + 1 > THROTTLE_LIMIT

\* the part of C34 that holds: a rejected request is at least the 16th of
\* its client since that client last paused for more than TIME_WINDOW
C34_RejectsOnlyLongBursts ==
    lastRequest.status = 429 =>
        throttleMap[lastRequest.ip].count > THROTTLE_LIMIT

(***************************************************************************)
(* Terminal events of the fetch pipeline (SpecFetch).                      *)
(***************************************************************************)
TerminalEvents == {"source:fetch:done", "source:fetch:error"}

TerminalCount(ev, s) ==
    Cardinality({i \in DOMAIN ev :
                    ev[i].source = s /\ ev[i].type \in TerminalEvents})

OneTerminalEvent(rr) ==
    \A s \in rr.requested :
        /\ TerminalCount(rr.events, s) <= 1
        /\ rr.pc = "done" => TerminalCount(rr.events, s) = 1

\* C35: every run of a source's fetch, by a single-source route, a bulk route
\* or the local fetch job, broadcasts exactly one terminal event for that
\* source: one source:fetch:done or one source:fetch:error, never both and
\* never one of them twice.
C35_OneTerminalEvent ==
    \A r \in Runs : run[r].kind \in Broadcasting => OneTerminalEvent(run[r])

\* the part of C35 that holds: the runs of every route but the single-source
\* route of routes/route-sources.ts with the WebSocket broadcast
C35_OtherRoutesOneTerminalEvent ==
    \A r \in Runs :
        run[r].kind \in Broadcasting \ {"singleWs"} => OneTerminalEvent(run[r])

(***************************************************************************)
(* POST /sources/update under overlapping requests: the handler awaits     *)
(* loadSources, changes the list it got, and awaits saveSources.           *)
(***************************************************************************)
MaxUpdates == 3

MaxRequests == 2

Requests == 1..MaxRequests

UpdatedNames == {"A", "B"}

NoOverride == 0

NoOverrides == [n \in UpdatedNames |-> NoOverride]

IdleUpdate == [pc |-> "idle", name |-> "none", id |-> NoOverride,
               sources |-> NoOverrides]

UpdatesInit ==
    /\ sourcesJson = NoOverrides
    /\ updatesMade = 0
    /\ update = [q \in Requests |-> IdleUpdate]
    /\ acknowledged = NoOverrides
    /\ interleaved = FALSE

UpdatesFrame == UNCHANGED <<baseVars, dbgVars, initVars, thrVars, toVars>>

InProgress(q) == update[q].pc \in {"load", "save"}

\* lines 207-213: the entry of the body's name is overlaid by the body, or the
\* body is pushed when the list has no entry of that name
Upsert(sources, name, id) == [sources EXCEPT ![name] = id]

\* updateSourceHandler up to await loadSources()
updateSourceBegins(q, name) ==
    /\ update[q].pc = "idle"
    /\ updatesMade < MaxUpdates
    /\ updatesMade' = updatesMade + 1
    /\ update' = [update EXCEPT ![q] =
                     [pc |-> "load", name |-> name, id |-> updatesMade + 1,
                      sources |-> NoOverrides]]
    /\ interleaved' = (interleaved \/ \E p \in Requests \ {q} : InProgress(p))
    /\ UNCHANGED <<sourcesJson, acknowledged>>
    /\ UpdatesFrame

\* loadSources resolves with the file's list; the list is changed and
\* saveSources is called with it
LoadSourcesReturns(q) ==
    /\ update[q].pc = "load"
    /\ update' = [update EXCEPT ![q] =
                     [@ EXCEPT !.pc = "save",
                               !.sources = Upsert(sourcesJson, update[q].name,
                                                  update[q].id)]]
    /\ UNCHANGED <<sourcesJson, updatesMade, acknowledged, interleaved>>
    /\ UpdatesFrame

\* saveSources has written the file; the handler answers 200
SaveSourcesReturns(q) ==
    /\ update[q].pc = "save"
    /\ sourcesJson' = update[q].sources
    /\ acknowledged' = [acknowledged EXCEPT ![update[q].name] = update[q].id]
    /\ update' = [update EXCEPT ![q] = IdleUpdate]
    /\ UNCHANGED <<updatesMade, interleaved>>
    /\ UpdatesFrame

NextUpdates ==
    \E q \in Requests :
        \/ \E name \in UpdatedNames : updateSourceBegins(q, name)
        \/ LoadSourcesReturns(q)
        \/ SaveSourcesReturns(q)

NoUpdateInProgress == \A q \in Requests : ~InProgress(q)

\* C36: concurrent source updates are not lost: once the POST /sources/update
\* requests made so far have all completed, the persisted override list has
\* the update of every one of them, whatever their interleaving was.
C36_NoLostUpdate ==
    NoUpdateInProgress => sourcesJson = acknowledged

\* the part of C36 that holds: updates that do not overlap are all kept
C36_SequentialUpdatesKept ==
    (NoUpdateInProgress /\ ~interleaved) => sourcesJson = acknowledged

(***************************************************************************)
(* Termination of the tracked jobs (SpecJobsLive): the two handlers that   *)
(* create a tracker row and the steps of their background tasks, with the  *)
(* assumption that every awaited call of a task resolves or rejects and    *)
(* that the setTimeout(0) callback is run.  The clock and the sweep are    *)
(* left to SpecJobs: the sweep removes only rows that are done or error.   *)
(***************************************************************************)
TrackedKinds == {"localFetch", "analyze"}

\* the next step of the background task of job id
TaskStep(id) ==
    \/ \E o \in {"articles", "empty", "throw"} : LocalFetchReturns(id, o)
    \/ \E o \in {"ok", "throw"} : LocalStoreReturns(id, o)
    \/ AnalysisTimerFires(id)
    \/ \E o \in {"ok", "throw"} : AiCallReturns(id, o)
    \/ DebugLogReturns(id)

NextJobsLive ==
    \/ \E id \in JobIds, s \in SourceNames : fetchSingleLocalSourceHandler(id, s)
    \/ \E id \in JobIds, s \in SourceNames, c \in {"empty", "text"} :
           analyzeArticleJob(id, s, c)
    \/ \E id \in JobIds : TaskStep(id)

TaskFairness == \A id \in JobIds : WF_vars(TaskStep(id))

ReachedTerminal(id) ==
    /\ statusLog[id] # <<>>
    /\ statusLog[id][Len(statusLog[id])] \in Terminal

StepThrew(id) ==
    LocalFetchReturns(id, "throw") \/ LocalStoreReturns(id, "throw")

\* C37: every tracked job eventually reaches a terminal status: when every
\* awaited call returns or throws, a job created by
\* fetchSingleLocalSourceHandler or analyzeArticleJob eventually has status
\* done or error, and the step in which its fetch or its store call throws
\* leaves it in status error.
C37_TrackedJobsTerminate ==
    /\ \A id \in JobIds :
          (jobKind[id] \in TrackedKinds) ~> ReachedTerminal(id)
    /\ [][\A id \in JobIds :
             StepThrew(id) => jobStatusMap'[id].status = "error"]_vars

C37_Witness ==
    \E id, other \in JobIds :
        /\ jobKind[id] = "localFetch" /\ jobPc[id] = "finished"
        /\ statusLog[id] = <<"queued", "running", "error">>
        /\ jobKind[other] = "analyze" /\ jobPc[other] = "finished"
        /\ statusLog[other] = <<"queued", "running", "done">>

(***************************************************************************)
(* withTimeout (lib/articles/aggregate.ts) as a race of two events, the    *)
(* loader's promise settling and the timer firing, inside the links loop   *)
(* of aggregateArticlesFromSources.  A loader that lost the race goes on   *)
(* in the background while the loop works on the next link.                *)
(***************************************************************************)
MaxRaces == 3

RaceLinks == 1..MaxRaces

IdleRace == [pc |-> "none", loader |-> "none", timer |-> "none",
             promise |-> "none", first |-> "none", settled |-> 0]

TimeoutInit ==
    /\ race = [i \in RaceLinks |-> IdleRace]
    /\ raceAt = 0
    /\ raceResults = <<>>

TimeoutFrame == UNCHANGED <<baseVars, dbgVars, initVars, thrVars, updVars>>

\* resolve(value) / reject(err) of the promise withTimeout returns: a promise
\* that is settled stays as it is
SettleMutLastWins(p, outcome) == outcome

Settle(p, outcome) == IF p = "pending" THEN outcome ELSE p

\* clearTimeout(timer): a timer that has fired is not changed
clearTimeout(t) == IF t = "armed" THEN "cleared" ELSE t

\* one call of resolve or reject, with the record of which event came first
\* and of how often the promise changed its state
Settled(r, by, outcome) ==
    [r EXCEPT !.promise = Settle(r.promise, outcome),
              !.first = IF r.first = "none" THEN by ELSE r.first,
              !.settled = IF Settle(r.promise, outcome) # r.promise
                          THEN r.settled + 1 ELSE r.settled]

\* resolveSingleArticle for the next link, up to await withTimeout(...): the
\* loader is started and the timer is set
resolveSingleArticleBegins ==
    /\ raceAt < MaxRaces
    /\ IF raceAt = 0 THEN TRUE ELSE race[raceAt].pc = "returned"
    /\ raceAt' = raceAt + 1
    /\ race' = [race EXCEPT ![raceAt + 1] =
                   [IdleRace EXCEPT !.pc = "await", !.loader = "pending",
                                    !.timer = "armed", !.promise = "pending"]]
    /\ UNCHANGED raceResults
    /\ TimeoutFrame

\* the loader's promise resolves with the article or rejects: the then or the
\* catch callback clears the timer and calls resolve or reject
LoaderSettles(i, o) ==
    /\ race[i].loader = "pending"
    /\ race' = [race EXCEPT ![i] =
          Settled([race[i] EXCEPT !.loader = o,
                                  !.timer = clearTimeout(race[i].timer)],
                  "loader", IF o = "article" THEN "fulfilled" ELSE "rejected")]
    /\ UNCHANGED <<raceAt, raceResults>>
    /\ TimeoutFrame

\* the timer's callback runs: reject(new Error("Timeout after ..."))
TimerFires(i) ==
    /\ race[i].timer = "armed"
    /\ race' = [race EXCEPT ![i] =
                   Settled([race[i] EXCEPT !.timer = "fired"], "timer",
                           "rejected")]
    /\ UNCHANGED <<raceAt, raceResults>>
    /\ TimeoutFrame

\* await withTimeout(...) resumes in resolveSingleArticle: the article is
\* returned and pushed to the results, or the rejection is caught, null is
\* returned and the link is dropped
AwaitResumes ==
    /\ raceAt \in RaceLinks
    /\ race[raceAt].pc = "await"
    /\ race[raceAt].promise \in {"fulfilled", "rejected"}
    /\ raceResults' = IF race[raceAt].promise = "fulfilled"
                      THEN Append(raceResults, raceAt) ELSE raceResults
    /\ race' = [race EXCEPT ![raceAt].pc = "returned"]
    /\ UNCHANGED raceAt
    /\ TimeoutFrame

NextTimeout ==
    \/ resolveSingleArticleBegins
    \/ \E i \in RaceLinks, o \in {"article", "reject"} : LoaderSettles(i, o)
    \/ \E i \in RaceLinks : TimerFires(i)
    \/ AwaitResumes

InResults(i) == \E k \in DOMAIN raceResults : raceResults[k] = i

\* C38: withTimeout settles exactly once and the first of the two events,
\* loader settled or timer fired, decides: after the timer fired first the
\* link is dropped and a later completion of its loader never adds it to the
\* results; after the loader settled first the timer is cleared and never
\* fires, and the outcome is the loader's.
C38_FirstEventDecides ==
    \A i \in RaceLinks :
        /\ race[i].settled <= 1
        /\ race[i].promise \in {"fulfilled", "rejected"} => race[i].settled = 1
        /\ race[i].first = "timer" =>
               /\ race[i].promise = "rejected"
               /\ ~InResults(i)
        /\ race[i].first = "loader" =>
               /\ race[i].timer = "cleared"
               /\ race[i].promise = IF race[i].loader = "article"
                                    THEN "fulfilled" ELSE "rejected"
        /\ race[i].pc = "returned" =>
               (InResults(i) <=>
                   race[i].first = "loader" /\ race[i].loader = "article")

\* the first link timed out and its loader completed with the article after
\* the link was dropped; the second link's loader won its race
C38_Witness ==
    /\ race[1].first = "timer" /\ race[1].loader = "article"
    /\ race[1].pc = "returned"
    /\ race[2].first = "loader" /\ race[2].timer = "cleared"
    /\ raceResults = <<2>>

(***************************************************************************)
(* POST /articles/local/save alone (SpecLocalSave): the handler awaits     *)
(* add(req.body, overwrite) and answers {success: true, url, overwritten:  *)
(* overwrite} whatever add returned; Helia may or may not be initialised.  *)
(***************************************************************************)
NextLocalSave ==
    \/ \E t \in Tasks, d \in IdArticles, o \in BOOLEAN :
           saveLocalArticleHandler(t, d, o)
    \/ \E t \in Tasks : GetReturns(t)
    \/ \E t \in Tasks, o \in {"cid", "none", "throw"} : IpfsReturns(t, o)
    \/ \E t \in Tasks : PutReturns(t)
    \/ \E t \in Tasks : LogReturns(t)
    \/ \E t \in Tasks : Collect(t)
    \/ initHelia
    \/ resetHelia

\* add has returned to the handler, which answers success with the body's url
\* and overwritten: overwrite
SuccessResponse(t) == task[t].kind = "add" /\ task[t].pc = "returned"

AddResult(t) == task[t].results[Len(task[t].results)]

\* C39: whenever POST /articles/local/save answers {success: true, url,
\* overwritten}, the local store has a record under that url, and overwritten
\* is true only if a record that existed was replaced by this request.
C39_SuccessReflectsStore ==
    \A t \in Tasks :
        SuccessResponse(t) =>
            /\ articleLocalDB[task[t].doc.url] # NoDoc
            /\ task[t].overwrite =>
                   /\ callStart.db[task[t].doc.url] # NoDoc
                   /\ AddResult(t) = "true"

\* the part of C39 that holds: when add returned true the store has the
\* request's document under its url, and when it returned null the record
\* that was there is still there
C39_StoredWhenAddSaysSo ==
    \A t \in Tasks :
        SuccessResponse(t) =>
            /\ AddResult(t) = "true" =>
                   articleLocalDB[task[t].doc.url] = task[t].doc
            /\ AddResult(t) = "null" =>
                   /\ articleLocalDB[task[t].doc.url] # NoDoc
                   /\ articleLocalDB[task[t].doc.url]
                        = callStart.db[task[t].doc.url]

Init ==
    /\ JobInit /\ LocalInit /\ StoresInit /\ FetchInit /\ SourcesInit
    /\ AnalyzeInit /\ AggregateInit /\ StoreOpsInit
    /\ DebugInit
    /\ SingletonInit
    /\ ThrottleInit
    /\ UpdatesInit
    /\ TimeoutInit

SpecJobs == Init /\ [][NextJobs]_vars
SpecJobsLive == Init /\ [][NextJobsLive]_vars /\ TaskFairness
SpecLocal == Init /\ [][NextLocal]_vars
SpecLocalConc == Init /\ [][NextLocalConc]_vars
SpecLocalIds == Init /\ [][NextLocalIds]_vars
SpecLocalSave == Init /\ [][NextLocalSave]_vars
SpecStores == Init /\ [][NextStores]_vars
SpecFetch == Init /\ [][NextFetch]_vars
SpecSources == Init /\ [][NextSources]_vars
SpecAnalyze == Init /\ [][NextAnalyze]_vars
SpecAggregate == Init /\ [][NextAggregate]_vars
SpecStoreOps == Init /\ [][NextStoreOps]_vars
SpecDebugLog == Init /\ [][NextDebugLog]_vars
SpecSingleton == Init /\ [][NextSingleton]_vars
SpecThrottle == Init /\ [][NextThrottle]_vars
SpecUpdates == Init /\ [][NextUpdates]_vars
SpecTimeout == Init /\ [][NextTimeout]_vars

====
